---- MODULE Spec2Model ----
(***************************************************************************)
(* Verification model of thermo_generator.py: the formula decomposer, the  *)
(* cache store, the four source providers, the multi-source resolver, the  *)
(* theoretical estimator and the ranges it generates, the catalog loop of  *)
(* generate_cantera_yaml, the four stages it calls on a resolved record    *)
(* (the coverage extender, the continuity diagnostics, the continuity      *)
(* optimizer and the cold-range refiner), and two runs that share one      *)
(* cache directory, one taken apart into its file writes.                  *)
(*                                                                         *)
(* Strings are sequences of one-character strings, Python dicts are        *)
(* functions whose DOMAIN is the key set, indices are 0-based as in the    *)
(* source (Ch and Slice convert).                                          *)
(***************************************************************************)
EXTENDS Integers, Sequences, FiniteSets, TLC

VARIABLES
    formula,        \* decompose_formula: the input under test
    composition,    \* decompose_formula: its result
    cache,          \* the files of CACHE_DIR: timestamps, whole databases, per-species records
    now,            \* datetime.now(), in days
    last,           \* what the last get_thermo_data call did and returned
    species_list,   \* generate_cantera_yaml: its input
    pos,            \* generate_cantera_yaml: the loop's position in species_list
    phase_species,  \* generate_cantera_yaml: cantera_data["phases"][0]["species"]
    species_entries, \* generate_cantera_yaml: cantera_data["species"]
    raised,         \* generate_cantera_yaml: an exception has left the loop
    thermo,         \* the pipeline stages: the record they are called on
    before,         \* the pipeline stages: the record as it was before the last call
    stage,          \* the pipeline stages: the stage called last
    calls,          \* the pipeline stages: how many calls were made
    network,        \* a provider refresh: the response of each endpoint of each source
    attempt,        \* a provider refresh: what the get_thermo_data call did and returned
    writing         \* two runs on one cache directory: the files one run has still to write

vars == <<formula, composition, cache, now, last,
          species_list, pos, phase_species, species_entries, raised,
          thermo, before, stage, calls, network, attempt, writing>>

formulaVars == <<formula, composition>>
cacheVars == <<cache, now, last>>
genVars == <<species_list, pos, phase_species, species_entries, raised>>
thermoVars == <<thermo, before, stage, calls>>
refreshVars == <<network, attempt, writing>>

(***************************************************************************)
(* Characters                                                              *)
(***************************************************************************)
Upper == {"C", "F", "H", "N", "O", "S", "X"}
Lower == {"a", "e", "u"}
\* the characters int() reads
Decimal == {"0", "1", "2", "3", "4", "5", "6", "7", "8", "9"}

\* str.isdigit(): also true of digits that int() does not read, such as the
\* superscript two
Digit == Decimal \cup {"²"}

DigitVal == [c \in Decimal |->
               CASE c = "0" -> 0 [] c = "1" -> 1 [] c = "2" -> 2 [] c = "3" -> 3
                 [] c = "4" -> 4 [] c = "5" -> 5 [] c = "6" -> 6 [] c = "7" -> 7
                 [] c = "8" -> 8 [] c = "9" -> 9]

\* section[i] with the source's 0-based index
Ch(s, i) == s[i + 1]

\* s[a:b] with the source's 0-based, end-exclusive bounds
Slice(s, a, b) == SubSeq(s, a + 1, b)

\* what int() gives where it raises ValueError
IntRaises == 0 - 1

\* int(digits)
RECURSIVE ParseInt(_)
ParseInt(digs) ==
    IF digs = <<>> THEN 0
    ELSE IF \E k \in 1..Len(digs) : digs[k] \notin Decimal THEN IntRaises
    ELSE ParseInt(SubSeq(digs, 1, Len(digs) - 1)) * 10 + DigitVal[digs[Len(digs)]]

\* ''.join(c for c in s if <c is kept>)
RECURSIVE Filter(_, _)
Filter(s, keep) ==
    IF s = <<>> THEN <<>>
    ELSE (IF Head(s) \in keep THEN <<Head(s)>> ELSE <<>>) \o Filter(Tail(s), keep)

RECURSIVE Remove(_, _)
Remove(s, drop) ==
    IF s = <<>> THEN <<>>
    ELSE (IF Head(s) \in drop THEN <<>> ELSE <<Head(s)>>) \o Remove(Tail(s), drop)

\* s.replace(old, new) for single characters
Replace(s, old, new) == [i \in 1..Len(s) |-> IF s[i] = old THEN new ELSE s[i]]

\* s.split('.')
RECURSIVE Split(_, _)
Split(s, cur) ==
    IF s = <<>> THEN <<cur>>
    ELSE IF Head(s) = "." THEN <<cur>> \o Split(Tail(s), <<>>)
    ELSE Split(Tail(s), Append(cur, Head(s)))

\* 'H2O' in part
H2O == <<"H", "2", "O">>

Contains(part, sub) ==
    \E a \in 0..(Len(part) - Len(sub)) : Slice(part, a, a + Len(sub)) = sub

(***************************************************************************)
(* Dicts of element counts                                                 *)
(***************************************************************************)
EmptyDict == [x \in {} |-> 0]

\* what a function returning a dict gives where it raises ValueError
ValueError == [x \in {<<"ValueError">>} |-> 0]

\* if element in d: d[element] += count  else: d[element] = count
DictAdd(d, element, count) ==
    [x \in DOMAIN d \cup {element} |->
        IF x = element THEN (IF x \in DOMAIN d THEN d[x] + count ELSE count)
        ELSE d[x]]

\* for element, count in sub.items(): add to d
DictMerge(d, sub) ==
    [x \in DOMAIN d \cup DOMAIN sub |->
        (IF x \in DOMAIN d THEN d[x] ELSE 0) + (IF x \in DOMAIN sub THEN sub[x] ELSE 0)]

(***************************************************************************)
(* decompose_formula                                                       *)
(***************************************************************************)
\* the scan for the matching ')' : while j < len(section) and open_count > 0
RECURSIVE ScanClose(_, _, _)
ScanClose(section, j, open_count) ==
    IF j < Len(section) /\ open_count > 0
    THEN ScanClose(section, j + 1,
                   IF Ch(section, j) = "(" THEN open_count + 1
                   ELSE IF Ch(section, j) = ")" THEN open_count - 1
                   ELSE open_count)
    ELSE [j |-> j, open_count |-> open_count]

\* while j < len(section) and section[j].isdigit(): j += 1
RECURSIVE ScanDigits(_, _)
ScanDigits(section, j) ==
    IF j < Len(section) /\ Ch(section, j) \in Digit
    THEN ScanDigits(section, j + 1)
    ELSE j

\* int(s) if s else 1
IntOrOne(digs) == IF digs = <<>> THEN 1 ELSE ParseInt(digs)

\* the multiplier handed to the recursive call for a parenthesized group
GroupMultiplierDropOuter(sub_multiplier, multiplier) == sub_multiplier

GroupMultiplier(sub_multiplier, multiplier) == sub_multiplier * multiplier

RECURSIVE ParseLoop(_, _, _, _)
ParseLoop(section, multiplier, i, element_counts) ==
    IF ~(i < Len(section)) THEN element_counts
    ELSE IF Ch(section, i) = "("
    THEN LET sc == ScanClose(section, i + 1, 1)
             j == sc.j
         IN IF sc.open_count > 0
            THEN ParseLoop(section, multiplier, j, element_counts)
            ELSE LET sub_formula == Slice(section, i + 1, j - 1)
                     j2 == ScanDigits(section, j)
                     sub_multiplier == IntOrOne(Slice(section, j, j2))
                     sub_counts == ParseLoop(sub_formula,
                                             GroupMultiplier(sub_multiplier, multiplier),
                                             0, EmptyDict)
                 IN IF sub_multiplier = IntRaises \/ sub_counts = ValueError
                    THEN ValueError
                    ELSE ParseLoop(section, multiplier, j2,
                                   DictMerge(element_counts, sub_counts))
    ELSE IF i + 1 < Len(section) /\ Ch(section, i) \in Upper /\ Ch(section, i + 1) \in Lower
    THEN LET i2 == ScanDigits(section, i + 2)
             count == IntOrOne(Slice(section, i + 2, i2))
         IN IF count = IntRaises THEN ValueError
            ELSE ParseLoop(section, multiplier, i2,
                           DictAdd(element_counts, Slice(section, i, i + 2),
                                   count * multiplier))
    ELSE IF Ch(section, i) \in Upper
    THEN LET i2 == ScanDigits(section, i + 1)
             count == IntOrOne(Slice(section, i + 1, i2))
         IN IF count = IntRaises THEN ValueError
            ELSE ParseLoop(section, multiplier, i2,
                           DictAdd(element_counts, Slice(section, i, i + 1),
                                   count * multiplier))
    ELSE ParseLoop(section, multiplier, i + 1, element_counts)

parse_formula_section(section, multiplier) == ParseLoop(section, multiplier, 0, EmptyDict)

\* for part in hydrate_parts[1:]: if 'H2O' in part: ...; break
RECURSIVE HydrateCount(_)
HydrateCount(parts) ==
    IF parts = <<>> THEN 0
    ELSE IF Contains(Head(parts), H2O)
         THEN IntOrOne(Filter(Head(parts), Digit))
         ELSE HydrateCount(Tail(parts))

decompose_formula(f) ==
    IF f = <<"e", "-">> THEN [x \in {<<"E">>} |-> 1]
    ELSE LET std == Replace(Replace(f, "·", "."), "*", ".")
             clean_formula == Remove(std, {"+", "-"})
         IN IF clean_formula = <<>> THEN EmptyDict
            ELSE LET hydrate_parts == Split(clean_formula, <<>>)
                     main_formula == hydrate_parts[1]
                     hydrate_count == HydrateCount(Tail(hydrate_parts))
                     elements == parse_formula_section(main_formula, 1)
                 IN IF hydrate_count = IntRaises \/ elements = ValueError
                    THEN ValueError
                    ELSE IF hydrate_count > 0
                    THEN DictMerge(elements, parse_formula_section(H2O, hydrate_count))
                    ELSE elements

(***************************************************************************)
(* Formulas as the grammar builds them: a formula is a sequence of items,  *)
(* an item is an element with a subscript or a parenthesized group with a  *)
(* multiplier; num = 0 stands for an omitted subscript or multiplier.      *)
(***************************************************************************)
El(sym, num) == [k |-> "el", sym |-> sym, num |-> num, body |-> <<>>]
Grp(body, num) == [k |-> "grp", sym |-> <<>>, num |-> num, body |-> body]

DigitChar == [n \in 0..9 |->
                CASE n = 0 -> "0" [] n = 1 -> "1" [] n = 2 -> "2" [] n = 3 -> "3"
                  [] n = 4 -> "4" [] n = 5 -> "5" [] n = 6 -> "6" [] n = 7 -> "7"
                  [] n = 8 -> "8" [] n = 9 -> "9"]

RECURSIVE RenderNum(_)
RenderNum(n) == IF n < 10 THEN <<DigitChar[n]>>
                ELSE RenderNum(n \div 10) \o <<DigitChar[n % 10]>>

RenderOpt(num) == IF num = 0 THEN <<>> ELSE RenderNum(num)

RECURSIVE Render(_)
Render(items) ==
    IF items = <<>> THEN <<>>
    ELSE LET it == Head(items)
         IN (IF it.k = "el" THEN it.sym \o RenderOpt(it.num)
             ELSE <<"(">> \o Render(it.body) \o <<")">> \o RenderOpt(it.num))
            \o Render(Tail(items))

NumOf(num) == IF num = 0 THEN 1 ELSE num

\* the count of every element: subscript times the product m of the
\* multipliers of the enclosing groups, summed over the occurrences
RECURSIVE Counts(_, _)
Counts(items, m) ==
    IF items = <<>> THEN EmptyDict
    ELSE LET it == Head(items)
             rest == Counts(Tail(items), m)
         IN IF it.k = "el" THEN DictAdd(rest, it.sym, NumOf(it.num) * m)
            ELSE DictMerge(rest, Counts(it.body, m * NumOf(it.num)))

Symbols == {<<"H">>, <<"O">>, <<"C", "a">>}
Subscripts == {0, 2, 12}
Multipliers == {0, 2, 3}

Atoms == {El(s, n) : s \in Symbols, n \in Subscripts}
Atoms2 == {El(s, n) : s \in Symbols, n \in {0, 2}}
Flat1 == {<<a>> : a \in Atoms2} \cup {<<a, b>> : a \in Atoms2, b \in Atoms2}
Flat == {<<a>> : a \in Atoms} \cup {<<a, b>> : a \in Atoms, b \in Atoms2}
Groups1 == {Grp(b, m) : b \in Flat1, m \in Multipliers}
Groups2 == {Grp(<<a, g>>, m) : a \in {El(<<"H">>, 0), El(<<"O">>, 2)}, g \in Groups1, m \in {2, 3}}
             \cup {Grp(<<g, a>>, m) : a \in {El(<<"H">>, 0), El(<<"O">>, 2)}, g \in Groups1, m \in {2, 3}}

\* H2O, Ca(OH)2, Fe2(SO4)3, CuSO4 and Fe
Water == <<El(<<"H">>, 2), El(<<"O">>, 0)>>
SlakedLime == <<El(<<"C", "a">>, 0), Grp(<<El(<<"O">>, 0), El(<<"H">>, 0)>>, 2)>>
FerricSulfate == <<El(<<"F", "e">>, 2), Grp(<<El(<<"S">>, 0), El(<<"O">>, 4)>>, 3)>>
CopperSulfate == <<El(<<"C", "u">>, 0), El(<<"S">>, 0), El(<<"O">>, 4)>>
Iron == <<El(<<"F", "e">>, 0)>>
Examples == {Water, SlakedLime, FerricSulfate, CopperSulfate, Iron}

Forms == Flat \cup {<<g>> : g \in Groups1 \cup Groups2}
              \cup {<<a, g>> : a \in Atoms2, g \in Groups1 \cup Groups2}
              \cup Examples
SmallForms == Flat1 \cup {<<g>> : g \in Groups1} \cup Examples

\* the inputs of decompose_formula: a formula of the grammar, optionally
\* followed by a hydrate suffix ".nH2O" (hyd = -1: none, 0: n omitted) or by
\* a charge suffix
NoHydrate == 0 - 1
HydrateNs == {0, 1, 5, 10}
ChargeSuffixes == {<<"+">>, <<"-">>, <<"2", "+">>, <<"3", "-">>}

Text(main, hyd, chg) ==
    Render(main) \o (IF hyd = NoHydrate THEN <<>> ELSE <<".">> \o RenderOpt(hyd) \o H2O) \o chg

Input(main, hyd, chg) ==
    [main |-> main, hyd |-> hyd, chg |-> chg, text |-> Text(main, hyd, chg), raw |-> FALSE]

PlainInputs == {Input(f, NoHydrate, <<>>) : f \in Forms}
HydrateInputs == {Input(f, n, <<>>) : f \in SmallForms, n \in HydrateNs}
ChargedInputs == {Input(f, NoHydrate, c) : f \in SmallForms, c \in ChargeSuffixes}

\* the inputs of decompose_formula that no grammar shapes: every string over
\* RawAlphabet of at most MaxRawLen characters
MaxRawLen == 4
RawAlphabet == {"H", "a", "(", ")", "2", "0", "²", "+"}

RECURSIVE StringsUpTo(_)
StringsUpTo(n) ==
    IF n = 0 THEN {<<>>}
    ELSE LET shorter == StringsUpTo(n - 1)
         IN shorter \cup {Append(t, c) : t \in shorter, c \in RawAlphabet}

RawInput(text) ==
    [main |-> <<>>, hyd |-> NoHydrate, chg |-> <<>>, text |-> text, raw |-> TRUE]

RawInputs == {RawInput(t) : t \in StringsUpTo(MaxRawLen)}

Pending == [done |-> FALSE, comp |-> EmptyDict]

(***************************************************************************)
(* Sources, species and the records of the built-in databases              *)
(***************************************************************************)
SOURCES == <<"burcat", "cea", "nasa", "nist">>
SourceSet == {SOURCES[i] : i \in 1..Len(SOURCES)}

\* the number of endpoints each update function walks through
BURCAT_DB_URLS == 4
NASA_CEA_URLS_UPDATED == 3
NASA_URLS_UPDATED == 4
NIST_API_URLS == 4

NumUrls == [s \in SourceSet |->
              CASE s = "burcat" -> BURCAT_DB_URLS
                [] s = "cea" -> NASA_CEA_URLS_UPDATED
                [] s = "nasa" -> NASA_URLS_UPDATED
                [] s = "nist" -> NIST_API_URLS]

\* timedelta(days=7)
CHECK_INTERVAL == 7

N2 == <<"N", "2">>
O3 == <<"O", "3">>
Xe == <<"X", "e">>
Electron == <<"e">>
\* a formula written with a superscript digit
HSuper2 == <<"H", "²">>
AllSpecies == {N2, O3, Xe, Electron, HSuper2}

\* the keys of real_burcat_data, real_cea_data, real_nasa_data and
\* real_nist_data among the species above
DbKeys == [s \in SourceSet |->
             CASE s = "burcat" -> {N2}
               [] s = "cea" -> {O3}
               [] s = "nasa" -> {N2}
               [] s = "nist" -> {N2}]

DbLabel == [s \in SourceSet |->
              CASE s = "burcat" -> "Burcat database (actual data)"
                [] s = "cea" -> "NASA CEA database (actual data)"
                [] s = "nasa" -> "NASA thermodynamic database (actual data)"
                [] s = "nist" -> "NIST JANAF Thermochemical Tables (actual data)"]

\* a record: its name, its "source" field and, as "origin", the database
\* whose composition, temperature ranges and coefficients it carries
Rec(name, source, origin) == [name |-> name, source |-> source, origin |-> origin]
None == Rec(<<>>, "None", "None")

DbRecord(s, sp) == Rec(sp, DbLabel[s], s)

(***************************************************************************)
(* Cache store                                                             *)
(***************************************************************************)
AbsentFile == [st |-> "absent", data |-> None]
CorruptFile == [st |-> "corrupt", data |-> None]
ValidFile(data) == [st |-> "valid", data |-> data]

AbsentTs == [st |-> "absent", t |-> 0]
CorruptTs == [st |-> "corrupt", t |-> 0]
ValidTs(t) == [st |-> "valid", t |-> t]

\* mutant of get_cached_data: the parse error of a damaged file is not caught
get_cached_data_Uncaught(C, source, sp) ==
    IF C.sp[source][sp].st = "valid" THEN C.sp[source][sp].data
    ELSE IF C.sp[source][sp].st = "corrupt" THEN Rec(<<>>, "ValueError", "ValueError")
    ELSE None

get_cached_data(C, source, sp) ==
    IF C.sp[source][sp].st = "valid" THEN C.sp[source][sp].data ELSE None

\* mutant of cache_data: the record is filed under the resolver's label
cache_data_Relabelled(C, source, sp, data) ==
    [C EXCEPT !.sp[source][sp] = ValidFile([data EXCEPT !.source = source])]

cache_data(C, source, sp, data) ==
    [C EXCEPT !.sp[source][sp] = ValidFile(data)]

\* mutants of should_update_database: ">=" for ">", the operands of the
\* subtraction swapped, the except branch returning False
should_update_database_AtInterval(ts, t) ==
    IF ts.st = "absent" THEN TRUE
    ELSE IF ts.st = "corrupt" THEN TRUE
    ELSE IF t - ts.t >= CHECK_INTERVAL THEN TRUE
    ELSE FALSE

should_update_database_Swapped(ts, t) ==
    IF ts.st = "absent" THEN TRUE
    ELSE IF ts.st = "corrupt" THEN TRUE
    ELSE IF ts.t - t > CHECK_INTERVAL THEN TRUE
    ELSE FALSE

should_update_database_ExceptFalse(ts, t) ==
    IF ts.st = "absent" THEN TRUE
    ELSE IF ts.st = "corrupt" THEN FALSE
    ELSE IF t - ts.t > CHECK_INTERVAL THEN TRUE
    ELSE FALSE

should_update_database(ts, t) ==
    IF ts.st = "absent" THEN TRUE
    \* fromisoformat raises ValueError, caught
    ELSE IF ts.st = "corrupt" THEN TRUE
    ELSE IF t - ts.t > CHECK_INTERVAL THEN TRUE
    ELSE FALSE

update_check_timestamp(C, source, t) == [C EXCEPT !.ts[source] = ValidTs(t)]

\* mutant of load_cached_database: the parse error is not caught as a miss
load_cached_database_Unchecked(C, source) ==
    IF C.db[source] # "absent" THEN DbKeys[source] ELSE {}

\* the database read from the cache file: its keys, {} when unreadable
load_cached_database(C, source) ==
    IF C.db[source] = "valid" THEN DbKeys[source] ELSE {}

(***************************************************************************)
(* Source providers.  n is what the network does to this provider's        *)
(* endpoint list: the response of each endpoint, in list order, "ok" for a *)
(* successful response, "error" for a connection error, "status" for a     *)
(* non-success status.                                                     *)
(***************************************************************************)
\* the responses when endpoint m is the only one to answer (none for m = 0)
FirstAnswer(source, m) ==
    [k \in 1..NumUrls[source] |-> IF k = m THEN "ok" ELSE "error"]

\* mutant of TryUrls: the loop goes on after a successful response
RECURSIVE TryUrls_NoBreak(_, _, _)
TryUrls_NoBreak(responses, k, tried) ==
    IF k > Len(responses) THEN [tried |-> tried, ok |-> \E j \in 1..Len(responses) : responses[j] = "ok"]
    ELSE TryUrls_NoBreak(responses, k + 1, Append(tried, k))

\* for url in URLS: try: requests.get(url); raise_for_status() (or
\* status_code == 200); break / except: the next url.  tried lists the
\* endpoints requested, ok tells whether one answered
RECURSIVE TryUrls(_, _, _)
TryUrls(responses, k, tried) ==
    IF k > Len(responses) THEN [tried |-> tried, ok |-> FALSE]
    ELSE IF responses[k] = "ok" THEN [tried |-> Append(tried, k), ok |-> TRUE]
    ELSE TryUrls(responses, k + 1, Append(tried, k))

\* mutant of UpdateDatabaseIfNeeded: the timestamp is written after a failed
\* download too
UpdateDatabaseIfNeeded_StampAlways(source, C, t, n) ==
    LET exists == C.db[source] # "absent"
        stale == IF exists THEN should_update_database(C.ts[source], t) ELSE FALSE
        checked == IF ~exists THEN "n/a" ELSE IF stale THEN "stale" ELSE "fresh"
        cached == IF exists /\ ~stale THEN load_cached_database(C, source) ELSE {}
    IN IF cached # {}
       THEN [db |-> cached, C |-> C, fetches |-> <<>>, checked |-> checked]
       ELSE LET download == TryUrls(n, 1, <<>>)
            IN IF download.ok
               THEN [db |-> DbKeys[source],
                     C |-> update_check_timestamp([C EXCEPT !.db[source] = "valid"], source, t),
                     fetches |-> download.tried, checked |-> checked]
               ELSE [db |-> load_cached_database(C, source),
                     C |-> update_check_timestamp(C, source, t),
                     fetches |-> download.tried, checked |-> checked]

UpdateDatabaseIfNeeded(source, C, t, n) ==
    LET exists == C.db[source] # "absent"
        stale == IF exists THEN should_update_database(C.ts[source], t) ELSE FALSE
        checked == IF ~exists THEN "n/a" ELSE IF stale THEN "stale" ELSE "fresh"
        cached == IF exists /\ ~stale THEN load_cached_database(C, source) ELSE {}
    IN IF cached # {}
       THEN [db |-> cached, C |-> C, fetches |-> <<>>, checked |-> checked]
       ELSE LET download == TryUrls(n, 1, <<>>)
            IN IF download.ok
               THEN [db |-> DbKeys[source],
                     C |-> update_check_timestamp([C EXCEPT !.db[source] = "valid"], source, t),
                     fetches |-> download.tried, checked |-> checked]
               ELSE [db |-> load_cached_database(C, source), C |-> C,
                     fetches |-> download.tried, checked |-> checked]

update_burcat_database_if_needed(C, t, n) == UpdateDatabaseIfNeeded("burcat", C, t, n)
update_nasa_cea_database_if_needed(C, t, n) == UpdateDatabaseIfNeeded("cea", C, t, n)
update_nasa_database_if_needed(C, t, n) == UpdateDatabaseIfNeeded("nasa", C, t, n)
update_nist_database_if_needed(C, t, n) == UpdateDatabaseIfNeeded("nist", C, t, n)

\* upd is evaluated only when the per-species cache misses
FetchData(source, upd, C, sp) ==
    LET cached == get_cached_data(C, source, sp)
    IN IF cached # None
       THEN [data |-> cached, C |-> C, fetches |-> <<>>, checked |-> "n/a"]
       ELSE IF sp \in upd.db
       THEN [data |-> DbRecord(source, sp),
             C |-> cache_data(upd.C, source, sp, DbRecord(source, sp)),
             fetches |-> upd.fetches, checked |-> upd.checked]
       ELSE [data |-> None, C |-> upd.C, fetches |-> upd.fetches, checked |-> upd.checked]

fetch_burcat_data(C, t, sp, n) ==
    FetchData("burcat", update_burcat_database_if_needed(C, t, n), C, sp)
fetch_cea_data(C, t, sp, n) ==
    FetchData("cea", update_nasa_cea_database_if_needed(C, t, n), C, sp)
fetch_nasa_data(C, t, sp, n) ==
    FetchData("nasa", update_nasa_database_if_needed(C, t, n), C, sp)
fetch_nist_data(C, t, sp, n) ==
    FetchData("nist", update_nist_database_if_needed(C, t, n), C, sp)

(***************************************************************************)
(* Theoretical estimator: whether it produces a record                     *)
(***************************************************************************)
RECURSIVE SumValues(_, _)
SumValues(d, keys) ==
    IF keys = {} THEN 0
    ELSE LET k == CHOOSE x \in keys : TRUE
         IN d[k] + SumValues(d, keys \ {k})

THEORETICAL == "theoretical-first-principles"

\* what get_thermo_data gives where an exception leaves it
Raised == Rec(<<>>, "ValueError", "ValueError")

calculate_thermo_from_first_principles(sp) ==
    LET comp == decompose_formula(sp)
        is_monatomic == Cardinality(DOMAIN comp) = 1 /\ \A x \in DOMAIN comp : comp[x] = 1
        atom_count == SumValues(comp, DOMAIN comp)
    \* line 2600 is outside the try of line 2618: decompose_formula's
    \* ValueError leaves the estimator and its callers
    IN IF comp = ValueError THEN Raised
       ELSE IF comp = EmptyDict THEN None
       \* math.log(atom_count * 10) raises for atom_count = 0, caught: None
       ELSE IF ~is_monatomic /\ atom_count * 10 <= 0 THEN None
       ELSE Rec(sp, THEORETICAL, "theoretical")

(***************************************************************************)
(* Multi-source resolver                                                   *)
(***************************************************************************)
NoLog == [species |-> <<>>, queried |-> <<>>,
          yielded |-> [s \in SourceSet |-> None],
          fetches |-> [s \in SourceSet |-> <<>>],
          checked |-> [s \in SourceSet |-> "n/a"],
          estimator |-> FALSE, result |-> None]

Provider(source, C, t, sp, n) ==
    CASE source = "burcat" -> fetch_burcat_data(C, t, sp, n)
      [] source = "cea" -> fetch_cea_data(C, t, sp, n)
      [] source = "nasa" -> fetch_nasa_data(C, t, sp, n)
      [] source = "nist" -> fetch_nist_data(C, t, sp, n)

\* mutant of Relabel: the provenance tag is left as the database wrote it
RelabelKept(data, source) == data

\* data["source"] = source
Relabel(data, source) == [data EXCEPT !.source = source]

\* mutant of Exhausted: the loop stops one source early
ExhaustedEarly(i) == i >= Len(SOURCES)

\* for source in SOURCES: the loop is over
Exhausted(i) == i > Len(SOURCES)

\* mutant of SourceLoop: a per-species file of any source is used before the
\* sources are gone through
RECURSIVE SourceLoop_CachedFirst(_, _, _, _, _, _)
SourceLoop_CachedFirst(i, C, t, sp, net, log) ==
    LET hits == {k \in 1..Len(SOURCES) : get_cached_data(C, SOURCES[k], sp) # None}
    IN IF i = 1 /\ hits # {}
       THEN LET source == SOURCES[CHOOSE k \in hits : \A j \in hits : j <= k]
                data == get_cached_data(C, source, sp)
            IN [C |-> C, log |-> [log EXCEPT !.queried = <<source>>,
                                             !.yielded[source] = data,
                                             !.result = Relabel(data, source)]]
       ELSE IF Exhausted(i)
       THEN LET theoretical_data == calculate_thermo_from_first_principles(sp)
            IN [C |-> C, log |-> [log EXCEPT !.estimator = TRUE, !.result = theoretical_data]]
       ELSE LET source == SOURCES[i]
                p == Provider(source, C, t, sp, net[source])
                log2 == [log EXCEPT !.queried = Append(@, source),
                                    !.yielded[source] = p.data,
                                    !.fetches[source] = p.fetches,
                                    !.checked[source] = p.checked]
            IN IF p.data # None
               THEN [C |-> p.C, log |-> [log2 EXCEPT !.result = Relabel(p.data, source)]]
               ELSE SourceLoop_CachedFirst(i + 1, p.C, t, sp, net, log2)

RECURSIVE SourceLoop(_, _, _, _, _, _)
SourceLoop(i, C, t, sp, net, log) ==
    IF Exhausted(i)
    THEN LET theoretical_data == calculate_thermo_from_first_principles(sp)
         IN [C |-> C, log |-> [log EXCEPT !.estimator = TRUE, !.result = theoretical_data]]
    ELSE LET source == SOURCES[i]
             p == Provider(source, C, t, sp, net[source])
             log2 == [log EXCEPT !.queried = Append(@, source),
                                 !.yielded[source] = p.data,
                                 !.fetches[source] = p.fetches,
                                 !.checked[source] = p.checked]
         IN IF p.data # None
            THEN [C |-> p.C, log |-> [log2 EXCEPT !.result = Relabel(p.data, source)]]
            ELSE SourceLoop(i + 1, p.C, t, sp, net, log2)

get_thermo_data(C, t, sp, net) ==
    SourceLoop(1, C, t, sp, net, [NoLog EXCEPT !.species = sp])

(***************************************************************************)
(* The resolver's environment and its actions                              *)
(***************************************************************************)
MaxNow == 8
MaxCorrupt == 1
MaxFirstOk == 2
TickDays == {CHECK_INTERVAL, CHECK_INTERVAL + 1}
Species == {N2, Xe}

EmptyCache == [ts |-> [s \in SourceSet |-> AbsentTs],
               db |-> [s \in SourceSet |-> "absent"],
               sp |-> [s \in SourceSet |-> [x \in AllSpecies |-> AbsentFile]]]

\* what the network can do to one provider in cache C: a provider that
\* answers from its caches never reaches the network, and its outcome is
\* fixed at no answer
WouldFetch(source, C, t, sp) ==
    Provider(source, C, t, sp, FirstAnswer(source, 0)).fetches # <<>>

Outcomes(source, C, t, sp) ==
    IF WouldFetch(source, C, t, sp)
    THEN {FirstAnswer(source, m) : m \in {n \in 0..NumUrls[source] : n <= MaxFirstOk}}
    ELSE {FirstAnswer(source, 0)}

\* what the network can do to one provider: no endpoint answers, or one does
Networks(source) == {FirstAnswer(source, m) : m \in 0..NumUrls[source]}

NetChoices(C, t, sp) ==
    {[burcat |-> a, cea |-> b, nasa |-> c, nist |-> d] :
        a \in Outcomes("burcat", C, t, sp), b \in Outcomes("cea", C, t, sp),
        c \in Outcomes("nasa", C, t, sp), d \in Outcomes("nist", C, t, sp)}

\* what the state keeps of a call's log: per source, whether the network
\* was tried at all
Kept(log) ==
    [species |-> log.species, queried |-> log.queried, yielded |-> log.yielded,
     fetched |-> {s \in SourceSet : log.fetches[s] # <<>>},
     estimator |-> log.estimator, result |-> log.result]

NumCorrupt(C) ==
    Cardinality({s \in SourceSet : C.ts[s].st = "corrupt"})
    + Cardinality({s \in SourceSet : C.db[s] = "corrupt"})
    + Cardinality({k \in SourceSet \X AllSpecies : C.sp[k[1]][k[2]].st = "corrupt"})

FormulaIdle == Input(<<>>, NoHydrate, <<>>)

GenIdle ==
    /\ species_list = <<>>
    /\ pos = 1
    /\ phase_species = <<>>
    /\ species_entries = <<>>
    /\ raised = FALSE

\* no pipeline stage is being exercised
ThermoIdle ==
    /\ thermo = [ranges |-> <<>>, diagnostics |-> <<>>, optimizations |-> <<>>]
    /\ before = thermo
    /\ stage = "none"
    /\ calls = 0

\* no run has files to write
NoWrite == [todo |-> <<>>, species |-> <<>>, phase |-> "closed", started |-> FALSE, reads |-> 0]

\* no provider refresh is being exercised
RefreshIdle ==
    /\ network = [s \in SourceSet |-> FirstAnswer(s, 0)]
    /\ attempt = NoLog
    /\ writing = NoWrite

Init ==
    /\ cache = EmptyCache
    /\ now = 0
    /\ last = Kept(NoLog)
    /\ formula = FormulaIdle
    /\ composition = Pending
    /\ GenIdle
    /\ ThermoIdle
    /\ RefreshIdle

Resolve(sp) ==
    /\ \E net \in NetChoices(cache, now, sp) :
          LET r == get_thermo_data(cache, now, sp, net)
          IN /\ cache' = r.C
             /\ last' = Kept(r.log)
    /\ UNCHANGED <<now, formulaVars, genVars, thermoVars, refreshVars>>

Tick(d) ==
    /\ now + d <= MaxNow
    /\ now' = now + d
    /\ UNCHANGED <<cache, last, formulaVars, genVars, thermoVars, refreshVars>>

CorruptTimestamp(s) ==
    /\ NumCorrupt(cache) < MaxCorrupt
    /\ cache.ts[s].st = "valid"
    /\ cache' = [cache EXCEPT !.ts[s] = CorruptTs]
    /\ UNCHANGED <<now, last, formulaVars, genVars, thermoVars, refreshVars>>

CorruptDatabase(s) ==
    /\ NumCorrupt(cache) < MaxCorrupt
    /\ cache.db[s] = "valid"
    /\ cache' = [cache EXCEPT !.db[s] = "corrupt"]
    /\ UNCHANGED <<now, last, formulaVars, genVars, thermoVars, refreshVars>>

CorruptSpeciesFile(s, sp) ==
    /\ NumCorrupt(cache) < MaxCorrupt
    /\ cache.sp[s][sp].st = "valid"
    /\ cache' = [cache EXCEPT !.sp[s][sp] = CorruptFile]
    /\ UNCHANGED <<now, last, formulaVars, genVars, thermoVars, refreshVars>>

Next ==
    \/ \E sp \in Species : Resolve(sp)
    \/ \E d \in TickDays : Tick(d)
    \/ \E s \in SourceSet : CorruptTimestamp(s)
    \/ \E s \in SourceSet : CorruptDatabase(s)
    \/ \E s \in SourceSet, sp \in Species : CorruptSpeciesFile(s, sp)

Spec == Init /\ [][Next]_vars

(***************************************************************************)
(* One get_thermo_data call with the endpoints of one source responding in *)
(* every possible way (the other sources' endpoints do not answer), on an  *)
(* empty cache directory, or on one whose databases were downloaded at     *)
(* day 0 and are looked at the same day or after the check interval        *)
(***************************************************************************)
Response == {"ok", "error", "status"}

NoAnswer == [s \in SourceSet |-> FirstAnswer(s, 0)]

NetworkInputs ==
    UNION {{[NoAnswer EXCEPT ![s] = r] : r \in [1..NumUrls[s] -> Response]} : s \in SourceSet}

\* the cache directory after every update function has downloaded its
\* database at day 0
Downloaded ==
    [EmptyCache EXCEPT !.ts = [s \in SourceSet |-> ValidTs(0)],
                       !.db = [s \in SourceSet |-> "valid"]]

InitRefresh ==
    /\ network \in NetworkInputs
    /\ attempt = NoLog
    /\ writing = NoWrite
    /\ cache \in {EmptyCache, Downloaded}
    /\ now \in {0, CHECK_INTERVAL + 1}
    /\ last = Kept(NoLog)
    /\ formula = FormulaIdle
    /\ composition = Pending
    /\ GenIdle
    /\ ThermoIdle

Refresh(sp) ==
    /\ attempt = NoLog
    /\ LET r == get_thermo_data(cache, now, sp, network)
       IN /\ cache' = r.C
          /\ last' = Kept(r.log)
          /\ attempt' = r.log
    /\ UNCHANGED <<now, network, writing, formulaVars, genVars, thermoVars>>

NextRefresh == \E sp \in Species : Refresh(sp)

SpecRefresh == InitRefresh /\ [][NextRefresh]_vars

(***************************************************************************)
(* Two runs on one cache directory, without locking.  One run's resolution *)
(* is taken apart into its file writes: open(file, 'w') leaves the file    *)
(* empty, the text then arrives, in full or a prefix first.  No prefix of  *)
(* a json.dump text parses; a prefix of an isoformat timestamp does not    *)
(* parse, or parses as an earlier time of the day it is written on.  The   *)
(* other run's resolutions happen between these steps.                     *)
(***************************************************************************)
MaxReads == 2

\* the files a call writes for one source, in the order of the code: the
\* database file and the timestamp after a download, then the per-species
\* file where the database had the species and the per-species file missed
FilesOfSource(C, log, net, s) ==
    LET downloaded == \E k \in 1..Len(log.fetches[s]) : net[s][log.fetches[s][k]] = "ok"
        filed == log.yielded[s] # None /\ get_cached_data(C, s, log.species) = None
    IN (IF downloaded
        THEN <<[file |-> "db", source |-> s], [file |-> "ts", source |-> s]>>
        ELSE <<>>)
       \o (IF filed THEN <<[file |-> "sp", source |-> s]>> ELSE <<>>)

\* the files a call writes, from the i-th source it asked on
RECURSIVE FilesWritten(_, _, _, _)
FilesWritten(C, log, net, i) ==
    IF i > Len(log.queried) THEN <<>>
    ELSE FilesOfSource(C, log, net, log.queried[i]) \o FilesWritten(C, log, net, i + 1)

\* the file just opened for writing: empty, which no reader can parse
Emptied(C, f, sp) ==
    CASE f.file = "db" -> [C EXCEPT !.db[f.source] = "corrupt"]
      [] f.file = "ts" -> [C EXCEPT !.ts[f.source] = CorruptTs]
      [] f.file = "sp" -> [C EXCEPT !.sp[f.source][sp] = CorruptFile]

\* the file with its text in full
Written(C, f, sp, t) ==
    CASE f.file = "db" -> [C EXCEPT !.db[f.source] = "valid"]
      [] f.file = "ts" -> update_check_timestamp(C, f.source, t)
      [] f.file = "sp" -> cache_data(C, f.source, sp, DbRecord(f.source, sp))

\* the networks of the two runs: each source answers at its first endpoint
\* or not at all
ConcurrentNetworks ==
    {[s \in SourceSet |-> FirstAnswer(s, IF s \in up THEN 1 ELSE 0)] : up \in SUBSET SourceSet}

InitConcurrent ==
    /\ network \in ConcurrentNetworks
    /\ attempt = NoLog
    /\ writing = NoWrite
    /\ cache \in {EmptyCache, Downloaded}
    /\ now \in {0, CHECK_INTERVAL + 1}
    /\ last = Kept(NoLog)
    /\ formula = FormulaIdle
    /\ composition = Pending
    /\ GenIdle
    /\ ThermoIdle

\* the first run resolves sp: what it reads it reads now, what it writes it
\* writes in the steps below
StartRun(sp) ==
    /\ ~writing.started
    /\ LET r == get_thermo_data(cache, now, sp, network)
       IN /\ attempt' = r.log
          /\ writing' = [writing EXCEPT !.todo = FilesWritten(cache, r.log, network, 1),
                                        !.species = sp,
                                        !.started = TRUE]
    /\ UNCHANGED <<cache, now, last, network, formulaVars, genVars, thermoVars>>

\* open(file, 'w')
OpenFile ==
    /\ writing.todo # <<>>
    /\ writing.phase = "closed"
    /\ cache' = Emptied(cache, Head(writing.todo), writing.species)
    /\ writing' = [writing EXCEPT !.phase = "open"]
    /\ UNCHANGED <<now, last, network, attempt, formulaVars, genVars, thermoVars>>

\* a prefix of the text is in the file
WritePrefix ==
    /\ writing.todo # <<>>
    /\ writing.phase = "open"
    /\ LET f == Head(writing.todo)
       IN cache' \in IF f.file = "ts"
                     THEN {cache, update_check_timestamp(cache, f.source, now)}
                     ELSE {cache}
    /\ writing' = [writing EXCEPT !.phase = "prefix"]
    /\ UNCHANGED <<now, last, network, attempt, formulaVars, genVars, thermoVars>>

\* the text is in the file and the file is closed
CloseFile ==
    /\ writing.todo # <<>>
    /\ writing.phase \in {"open", "prefix", "covered"}
    /\ cache' = Written(cache, Head(writing.todo), writing.species, now)
    /\ writing' = [writing EXCEPT !.todo = Tail(@), !.phase = "closed"]
    /\ UNCHANGED <<now, last, network, attempt, formulaVars, genVars, thermoVars>>

\* the call of the log writes the file that the first run has open
WritesOver(log, net, C) ==
    /\ writing.todo # <<>>
    /\ writing.phase \in {"open", "prefix"}
    /\ \E k \in DOMAIN FilesWritten(C, log, net, 1) :
          /\ FilesWritten(C, log, net, 1)[k] = Head(writing.todo)
          /\ Head(writing.todo).file = "sp" => log.species = writing.species

\* a resolution of the second run; a file it writes in full while the first
\* run has it open holds the full text from then on, the first run's text
\* going over the same bytes
ReadRun(sp) ==
    /\ writing.reads < MaxReads
    /\ LET r == get_thermo_data(cache, now, sp, network)
       IN /\ cache' = r.C
          /\ last' = Kept(r.log)
          /\ writing' = [writing EXCEPT !.reads = @ + 1,
                                        !.phase = IF WritesOver(r.log, network, cache)
                                                  THEN "covered" ELSE @]
    /\ UNCHANGED <<now, network, attempt, formulaVars, genVars, thermoVars>>

NextConcurrent ==
    \/ \E sp \in Species : StartRun(sp)
    \/ OpenFile
    \/ WritePrefix
    \/ CloseFile
    \/ \E sp \in Species : ReadRun(sp)

SpecConcurrent == InitConcurrent /\ [][NextConcurrent]_vars

(***************************************************************************)
(* Numbers.  A float is modelled by the rational it stands for, a record   *)
(* [n, d] in lowest terms with d > 0, and the arithmetic is exact.         *)
(***************************************************************************)
AbsInt(a) == IF a < 0 THEN 0 - a ELSE a

\* F(x), with x computed once before F uses it
Eval(F(_), x) == CHOOSE r \in {F(v) : v \in {x}} : TRUE

RECURSIVE GCD(_, _)
GCD(a, b) == IF b = 0 THEN a ELSE GCD(b, a % b)

Q(n, d) ==
    LET g == GCD(AbsInt(n), AbsInt(d))
        sgn == IF d < 0 THEN 0 - 1 ELSE 1
    IN [n |-> sgn * (n \div g), d |-> sgn * (d \div g)]

Zero == [n |-> 0, d |-> 1]
One == [n |-> 1, d |-> 1]
Num(k) == [n |-> k, d |-> 1]

\* x + y
Add(x, y) ==
    LET g == GCD(x.d, y.d)
    IN Q(x.n * (y.d \div g) + y.n * (x.d \div g), (x.d \div g) * y.d)

Neg(x) == [n |-> 0 - x.n, d |-> x.d]

\* x - y
Sub(x, y) == Add(x, Neg(y))

\* x * y
Mul(x, y) ==
    IF x.n = 0 \/ y.n = 0 THEN Zero
    ELSE LET g1 == GCD(AbsInt(x.n), y.d)
             g2 == GCD(AbsInt(y.n), x.d)
         IN [n |-> (x.n \div g1) * (y.n \div g2), d |-> (x.d \div g2) * (y.d \div g1)]

\* x / y for y # 0
Div(x, y) == Mul(x, Q(y.d, y.n))

\* abs(x)
Abs(x) == [n |-> AbsInt(x.n), d |-> x.d]

\* x < y
Less(x, y) ==
    LET g == GCD(x.d, y.d)
    IN x.n * (y.d \div g) < y.n * (x.d \div g)

\* x ** k
RECURSIVE Pow(_, _)
Pow(x, k) == IF k = 0 THEN One ELSE Mul(x, Pow(x, k - 1))

(***************************************************************************)
(* NASA polynomials.  Temperatures are rationals in kelvin.               *)
(***************************************************************************)
K(t) == Num(t)

\* math.log of a temperature, to one decimal
Log(T) ==
    CASE T = Q(1, 1) -> Q(0, 10)
      [] T = Q(2, 1) -> Q(7, 10)
      [] T = Q(100, 1) -> Q(46, 10)
      [] T = Q(400, 3) -> Q(49, 10)
      [] T = Q(500, 3) -> Q(51, 10)
      [] T = Q(200, 1) -> Q(53, 10)
      [] T = Q(700, 3) -> Q(55, 10)
      [] T = Q(800, 3) -> Q(56, 10)
      [] T = Q(300, 1) -> Q(57, 10)
      [] T = Q(1000, 3) -> Q(58, 10)
      [] T = Q(1100, 3) -> Q(59, 10)
      [] T = Q(400, 1) -> Q(60, 10)
      [] T = Q(500, 1) -> Q(62, 10)
      [] T = Q(1000, 1) -> Q(69, 10)
      [] T = Q(6000, 1) -> Q(87, 10)

\* Cp/R = a1 + a2*T + a3*T^2 + a4*T^3 + a5*T^4
compute_cp(coefs, T) ==
    IF Len(coefs) < 5 THEN Zero
    ELSE Add(coefs[1],
         Add(Mul(coefs[2], T),
         Add(Mul(coefs[3], Pow(T, 2)),
         Add(Mul(coefs[4], Pow(T, 3)),
             Mul(coefs[5], Pow(T, 4))))))

\* H/RT = a1 + a2*T/2 + a3*T^2/3 + a4*T^3/4 + a5*T^4/5 + a6/T
compute_h(coefs, T) ==
    IF Len(coefs) < 7 THEN Zero
    ELSE Add(coefs[1],
         Add(Div(Mul(coefs[2], T), Num(2)),
         Add(Div(Mul(coefs[3], Pow(T, 2)), Num(3)),
         Add(Div(Mul(coefs[4], Pow(T, 3)), Num(4)),
         Add(Div(Mul(coefs[5], Pow(T, 4)), Num(5)),
             Div(coefs[6], T))))))

\* S/R = a1*ln(T) + a2*T + a3*T^2/2 + a4*T^3/3 + a5*T^4/4 + a7
compute_s(coefs, T) ==
    IF Len(coefs) < 7 THEN Zero
    ELSE Add(Mul(coefs[1], Log(T)),
         Add(Mul(coefs[2], T),
         Add(Div(Mul(coefs[3], Pow(T, 2)), Num(2)),
         Add(Div(Mul(coefs[4], Pow(T, 3)), Num(3)),
         Add(Div(Mul(coefs[5], Pow(T, 4)), Num(4)),
             coefs[7])))))

\* the continuity threshold 1e-3
TOLERANCE == Q(1, 1000)

\* all(abs(x) < tolerance for x in [cp_diff, h_diff, s_diff])
WithinTolerance(cp_diff, h_diff, s_diff, tolerance) ==
    /\ Less(Abs(cp_diff), tolerance)
    /\ Less(Abs(h_diff), tolerance)
    /\ Less(Abs(s_diff), tolerance)

(***************************************************************************)
(* A record as the pipeline stages see it: "temperature-ranges",           *)
(* "transition_diagnostics" and "optimizations" (an absent list is the     *)
(* empty one: the code creates each list with its first entry).            *)
(***************************************************************************)
Range(t_min, t_max, t_ref, coefficients) ==
    [Tmin |-> t_min, Tmax |-> t_max, Tref |-> t_ref, coefficients |-> coefficients]

ThermoData(ranges) == [ranges |-> ranges, diagnostics |-> <<>>, optimizations |-> <<>>]

\* mutant of Diagnostic: the differences are taken lower minus upper
Diagnostic_LowerMinusUpper(range1, range2) ==
    LET t_transition == range1.Tmax
        coefs1 == range1.coefficients
        coefs2 == range2.coefficients
        cp_diff == Sub(compute_cp(coefs1, t_transition), compute_cp(coefs2, t_transition))
        h_diff == Sub(compute_h(coefs1, t_transition), compute_h(coefs2, t_transition))
        s_diff == Sub(compute_s(coefs1, t_transition), compute_s(coefs2, t_transition))
    IN [transition_temperature |-> t_transition,
        range1_to_range2 |-> <<range1.Tmin, range1.Tmax, range2.Tmin, range2.Tmax>>,
        cp_discontinuity |-> cp_diff,
        h_discontinuity |-> h_diff,
        s_discontinuity |-> s_diff,
        within_tolerance |-> WithinTolerance(cp_diff, h_diff, s_diff, TOLERANCE)]

\* the entry check_transition_continuity appends for the pair (range1, range2)
Diagnostic(range1, range2) ==
    LET t_transition == range1.Tmax
        coefs1 == range1.coefficients
        coefs2 == range2.coefficients
        cp_diff == Sub(compute_cp(coefs2, t_transition), compute_cp(coefs1, t_transition))
        h_diff == Sub(compute_h(coefs2, t_transition), compute_h(coefs1, t_transition))
        s_diff == Sub(compute_s(coefs2, t_transition), compute_s(coefs1, t_transition))
    IN [transition_temperature |-> t_transition,
        range1_to_range2 |-> <<range1.Tmin, range1.Tmax, range2.Tmin, range2.Tmax>>,
        cp_discontinuity |-> cp_diff,
        h_discontinuity |-> h_diff,
        s_discontinuity |-> s_diff,
        within_tolerance |-> WithinTolerance(cp_diff, h_diff, s_diff, TOLERANCE)]

\* for i in range(len(ranges) - 1): thermo_data["transition_diagnostics"].append(...)
RECURSIVE CheckLoop(_, _, _)
CheckLoop(ranges, i, diagnostics) ==
    IF i > Len(ranges) - 1 THEN diagnostics
    ELSE Eval(LAMBDA appended : CheckLoop(ranges, i + 1, appended),
              Append(diagnostics, Diagnostic(ranges[i], ranges[i + 1])))

\* mutant of check_transition_continuity: the list is started afresh
check_transition_continuity_Overwrite(thermo_data) ==
    IF Len(thermo_data.ranges) < 2 THEN thermo_data
    ELSE [thermo_data EXCEPT !.diagnostics = CheckLoop(thermo_data.ranges, 1, <<>>)]

check_transition_continuity(thermo_data) ==
    IF Len(thermo_data.ranges) < 2 THEN thermo_data
    ELSE [thermo_data EXCEPT !.diagnostics = CheckLoop(thermo_data.ranges, 1, @)]

(***************************************************************************)
(* optimize_transition_continuity                                          *)
(***************************************************************************)
MAX_ADJUSTMENTS == 10

Half == Q(1, 2)
Quarter == Q(1, 4)

\* mutant of Adjust: a7 is left alone
Adjust_KeepA7(coefs2, cp_diff, h_diff, s_diff, t_transition, tolerance) ==
    [coefs2 EXCEPT ![6] = Sub(@, Mul(Mul(h_diff, t_transition), Half))]

\* mutant of Adjust: the entropy correction is also booked on a8
Adjust_AlsoA8(coefs2, cp_diff, h_diff, s_diff, t_transition, tolerance) ==
    [coefs2 EXCEPT ![6] = Sub(@, Mul(Mul(h_diff, t_transition), Half)),
                   ![7] = Sub(@, Mul(s_diff, Half)),
                   ![8] = Sub(@, Mul(s_diff, Half))]

\* one pass of the body of the adjustment loop over the upper range's
\* coefficients: a6 and a7 take half of the enthalpy and entropy gaps, and
\* a1..a5 share half of the heat-capacity gap when it exceeds the tolerance
Adjust(coefs2, cp_diff, h_diff, s_diff, t_transition, tolerance) ==
    LET a6_adjustment == Mul(h_diff, t_transition)
        a7_adjustment == s_diff
        remaining == Mul(cp_diff, Quarter)
        Share(j) == Div(Mul(remaining, Quarter), Pow(t_transition, j))
        c67 == [coefs2 EXCEPT ![6] = Sub(@, Mul(a6_adjustment, Half)),
                              ![7] = Sub(@, Mul(a7_adjustment, Half))]
    IN IF Less(tolerance, Abs(cp_diff))
       THEN [c67 EXCEPT ![1] = Sub(@, Mul(cp_diff, Quarter)),
                        ![2] = Sub(@, Share(1)),
                        ![3] = Sub(@, Share(2)),
                        ![4] = Sub(@, Share(3)),
                        ![5] = Sub(@, Share(4))]
       ELSE c67

\* for iteration in range(max_adjustments): ... break when within tolerance
RECURSIVE AdjustLoop(_, _, _, _, _, _)
AdjustLoop(coefs1, coefs2, t_transition, tolerance, iteration, max_adjustments) ==
    IF iteration >= max_adjustments THEN coefs2
    ELSE LET cp_diff == Sub(compute_cp(coefs2, t_transition), compute_cp(coefs1, t_transition))
             h_diff == Sub(compute_h(coefs2, t_transition), compute_h(coefs1, t_transition))
             s_diff == Sub(compute_s(coefs2, t_transition), compute_s(coefs1, t_transition))
         IN IF WithinTolerance(cp_diff, h_diff, s_diff, tolerance) THEN coefs2
            ELSE Eval(LAMBDA adjusted : AdjustLoop(coefs1, adjusted, t_transition, tolerance,
                                                   iteration + 1, max_adjustments),
                      Adjust(coefs2, cp_diff, h_diff, s_diff, t_transition, tolerance))

\* mutant of PairLoop: the lower range of each pair is adjusted to the upper
RECURSIVE PairLoop_AdjustLower(_, _, _, _)
PairLoop_AdjustLower(ranges, i, tolerance, max_adjustments) ==
    IF i > Len(ranges) - 1 THEN ranges
    ELSE LET coefs1 == ranges[i].coefficients
             coefs2 == ranges[i + 1].coefficients
         IN IF Len(coefs1) < 7 \/ Len(coefs2) < 7
            THEN PairLoop_AdjustLower(ranges, i + 1, tolerance, max_adjustments)
            ELSE Eval(LAMBDA updated : PairLoop_AdjustLower(updated, i + 1, tolerance,
                                                            max_adjustments),
                      [ranges EXCEPT ![i].coefficients =
                          AdjustLoop(coefs2, coefs1, ranges[i].Tmax, tolerance,
                                     0, max_adjustments)])

\* for i in range(len(ranges) - 1): adjust ranges[i+1] against ranges[i]
RECURSIVE PairLoop(_, _, _, _)
PairLoop(ranges, i, tolerance, max_adjustments) ==
    IF i > Len(ranges) - 1 THEN ranges
    ELSE LET coefs1 == ranges[i].coefficients
             coefs2 == ranges[i + 1].coefficients
         IN IF Len(coefs1) < 7 \/ Len(coefs2) < 7
            THEN PairLoop(ranges, i + 1, tolerance, max_adjustments)
            ELSE Eval(LAMBDA updated : PairLoop(updated, i + 1, tolerance, max_adjustments),
                      [ranges EXCEPT ![i + 1].coefficients =
                          AdjustLoop(coefs1, coefs2, ranges[i].Tmax, tolerance,
                                     0, max_adjustments)])

\* any(not diag["within_tolerance"] for diag in diagnostics)
NeedsAdjustment(diagnostics) ==
    \E k \in 1..Len(diagnostics) : ~diagnostics[k].within_tolerance

OptimizationEvent(type, applied, tolerance) ==
    [type |-> type, applied |-> applied, tolerance |-> tolerance]

\* the body of optimize_transition_continuity from the test of
\* needs_adjustment on, checked being the record with its diagnostics
OptimizeChecked(checked, tolerance, max_adjustments) ==
    LET needs_adjustment == NeedsAdjustment(checked.diagnostics)
    IN IF ~needs_adjustment THEN checked
       ELSE Eval(check_transition_continuity,
                 [checked EXCEPT
                     !.ranges = PairLoop(@, 1, tolerance, max_adjustments),
                     !.optimizations = Append(@, OptimizationEvent("transition_continuity",
                                                                   needs_adjustment,
                                                                   tolerance))])

optimize_transition_continuity(thermo_data, tolerance, max_adjustments) ==
    IF Len(thermo_data.ranges) < 2 THEN thermo_data
    ELSE Eval(LAMBDA checked : OptimizeChecked(checked, tolerance, max_adjustments),
              IF thermo_data.diagnostics = <<>>
              THEN check_transition_continuity(thermo_data)
              ELSE thermo_data)

(***************************************************************************)
(* ensure_cold_range_coverage                                              *)
(***************************************************************************)
TEMP_COLD_RANGE == <<K(100), K(400)>>

\* x <= y
LessEq(x, y) == ~Less(y, x)

RECURSIVE InsertByTmin(_, _)
InsertByTmin(sorted, r) ==
    IF sorted = <<>> THEN <<r>>
    ELSE IF LessEq(sorted[Len(sorted)].Tmin, r.Tmin) THEN Append(sorted, r)
    ELSE Append(InsertByTmin(SubSeq(sorted, 1, Len(sorted) - 1), r), sorted[Len(sorted)])

\* sorted(ranges, key=lambda r: r.get("T-min", 0.0)), a stable sort
RECURSIVE SortedByTmin(_)
SortedByTmin(ranges) ==
    IF Len(ranges) <= 1 THEN ranges
    ELSE InsertByTmin(SortedByTmin(SubSeq(ranges, 1, Len(ranges) - 1)), ranges[Len(ranges)])

\* t_min <= cold_max and t_max >= cold_min
Overlaps(range_data, cold_range) ==
    /\ LessEq(range_data.Tmin, cold_range[2])
    /\ LessEq(cold_range[1], range_data.Tmax)

\* ColdRangeCovered without lines 2925-2929: only full coverage counts
ColdRangeCovered_FullOnly(ranges_sorted, cold_range) ==
    \E k \in 1..Len(ranges_sorted) :
        /\ LessEq(ranges_sorted[k].Tmin, cold_range[1])
        /\ LessEq(cold_range[2], ranges_sorted[k].Tmax)

\* the loop that sets cold_range_covered: a range that covers the cold range
\* fully also overlaps it, so the second test decides
ColdRangeCovered(ranges_sorted, cold_range) ==
    \E k \in 1..Len(ranges_sorted) :
        \/ /\ LessEq(ranges_sorted[k].Tmin, cold_range[1])
           /\ LessEq(cold_range[2], ranges_sorted[k].Tmax)
        \/ Overlaps(ranges_sorted[k], cold_range)

ensure_cold_range_coverage(thermo_data, cold_range) ==
    IF thermo_data.ranges = <<>> THEN thermo_data
    ELSE LET ranges_sorted == SortedByTmin(thermo_data.ranges)
             closest_range == ranges_sorted[1]
         IN IF ColdRangeCovered(ranges_sorted, cold_range) THEN thermo_data
            ELSE IF Len(closest_range.coefficients) < 7 THEN thermo_data
            ELSE [thermo_data EXCEPT
                     !.ranges = <<Range(cold_range[1], closest_range.Tmin,
                                        closest_range.Tref,
                                        closest_range.coefficients)>> \o ranges_sorted]

(***************************************************************************)
(* optimize_cold_range_accuracy.  The relative errors the refiner compares *)
(* are kept to twenty binary digits, as integers counting 2^-20; the guard  *)
(* 1e-10 it adds to each denominator is below that and is left out, so the *)
(* records it is applied to have non-zero Cp/R, H/RT and S/R at the test   *)
(* temperatures.                                                           *)
(***************************************************************************)
COLD_TOLERANCE == Q(1, 10000)
MAX_ITERATIONS == 20

\* for adjustment in [-0.0001, -0.00001, 0.00001, 0.0001]
ADJUSTMENTS == <<Q(0 - 1, 10000), Q(0 - 1, 100000), Q(1, 100000), Q(1, 10000)>>

\* float('inf')
INF == 0 - 1

\* a < b for a finite a
ErrorLess(a, b) == b = INF \/ a < b

\* [cold_min + i * (cold_max - cold_min) / 9 for i in range(10)]
DefaultTestTemps(cold_range) ==
    [i \in 1..10 |-> Add(cold_range[1],
                         Div(Mul(Num(i - 1), Sub(cold_range[2], cold_range[1])), Num(9)))]

\* the first k binary digits of rem / q, for 0 <= rem < q
RECURSIVE Bits(_, _, _)
Bits(rem, q, k) ==
    IF k = 0 THEN 0
    ELSE ((rem * 2) \div q) * 2^(k - 1) + Bits((rem * 2) % q, q, k - 1)

\* x >= 0 in units of 2^-20, rounded down (a fraction too long to divide is
\* shortened first)
RECURSIVE Fixed(_)
Fixed(x) ==
    IF x.d >= 2^30 THEN Fixed([n |-> x.n \div 2, d |-> x.d \div 2])
    ELSE (x.n \div x.d) * 2^20 + Bits(x.n % x.d, x.d, 20)

\* original_values: (temp, cp, h, s) at the test temperatures inside the range
OriginalValues(original_coefs, test_temps, t_min, t_max) ==
    LET Inside(temp) == ~(Less(temp, t_min) \/ Less(t_max, temp))
        temps == SelectSeq(test_temps, Inside)
    IN [k \in 1..Len(temps) |->
           [temp |-> temps[k],
            cp |-> compute_cp(original_coefs, temps[k]),
            h |-> compute_h(original_coefs, temps[k]),
            s |-> compute_s(original_coefs, temps[k])]]

\* total_error of one candidate: the sum over original_values, from the k-th on.
\* test_cp - orig_cp is computed as the Cp/R of the coefficient differences,
\* which it equals (each property is linear in the coefficients); so for h, s.
RECURSIVE TotalError(_, _, _, _, _)
TotalError(test_coefs, original_coefs, original_values, cold_range, k) ==
    IF k > Len(original_values) THEN 0
    ELSE LET v == original_values[k]
             diff == [j \in 1..Len(test_coefs) |-> Sub(test_coefs[j], original_coefs[j])]
             weight == Div(Sub(cold_range[2], v.temp), Sub(cold_range[2], cold_range[1]))
             cp_error == Fixed(Abs(Div(compute_cp(diff, v.temp), v.cp)))
             h_error == Fixed(Abs(Div(compute_h(diff, v.temp), Abs(v.h))))
             s_error == Fixed(Abs(Div(compute_s(diff, v.temp), v.s)))
             error == ((cp_error + h_error + s_error) * (weight.d + weight.n)) \div weight.d
         IN error + TotalError(test_coefs, original_coefs, original_values, cold_range, k + 1)

\* for i in range(3): for adjustment in [...]: the candidates from the c-th on,
\* best being (best_error, best_coefs, improved)
RECURSIVE TryCandidates(_, _, _, _, _, _)
TryCandidates(original_coefs, original_values, working_coefs, best, c, cold_range) ==
    IF c >= 3 * Len(ADJUSTMENTS) THEN best
    ELSE LET i == c \div Len(ADJUSTMENTS)
             adjustment == ADJUSTMENTS[(c % Len(ADJUSTMENTS)) + 1]
             test_coefs == [working_coefs EXCEPT ![i + 1] = Add(@, adjustment)]
             total_error == TotalError(test_coefs, original_coefs, original_values,
                                       cold_range, 1)
         IN Eval(LAMBDA kept : TryCandidates(original_coefs, original_values, working_coefs,
                                             kept, c + 1, cold_range),
                 Eval(LAMBDA error : IF ErrorLess(error, best.error)
                                     THEN [error |-> error, coefs |-> test_coefs,
                                           improved |-> TRUE]
                                     ELSE best,
                      total_error))

\* mutant of RefineLoop: a single pass over the candidates
RefineLoop_OnePass(original_coefs, original_values, working_coefs, best, iteration, max_iterations, cold_range) ==
    TryCandidates(original_coefs, original_values, working_coefs, best, 0, cold_range)

\* for iteration in range(max_iterations): ... break when nothing improved
RECURSIVE RefineLoop(_, _, _, _, _, _, _)
RefineLoop(original_coefs, original_values, working_coefs, best, iteration, max_iterations, cold_range) ==
    IF iteration >= max_iterations THEN best
    ELSE Eval(LAMBDA tried :
                  IF tried.improved
                  THEN RefineLoop(original_coefs, original_values, tried.coefs,
                                  [tried EXCEPT !.improved = FALSE],
                                  iteration + 1, max_iterations, cold_range)
                  ELSE tried,
              TryCandidates(original_coefs, original_values, working_coefs, best,
                            0, cold_range))

\* for range_idx in cold_range_indices: the ranges from the k-th on, done being
\* (ranges_sorted, cold_range_optimized)
RECURSIVE RefineRanges(_, _, _, _, _)
RefineRanges(done, k, cold_range, test_temps, max_iterations) ==
    IF k > Len(done.ranges) THEN done
    ELSE LET range_data == done.ranges[k]
             original_coefs == range_data.coefficients
             Refined(original_values) ==
                 Eval(LAMBDA best :
                          IF best.error = INF THEN done
                          ELSE [ranges |-> [done.ranges EXCEPT ![k].coefficients = best.coefs],
                                optimized |-> TRUE],
                      RefineLoop(original_coefs, original_values, original_coefs,
                                 [error |-> INF, coefs |-> original_coefs, improved |-> FALSE],
                                 0, max_iterations, cold_range))
         IN Eval(LAMBDA next : RefineRanges(next, k + 1, cold_range, test_temps,
                                            max_iterations),
                 IF ~Overlaps(range_data, cold_range) \/ Len(original_coefs) < 7
                 THEN done
                 ELSE Eval(LAMBDA original_values :
                               IF original_values = <<>> THEN done
                               ELSE Refined(original_values),
                           OriginalValues(original_coefs, test_temps,
                                          range_data.Tmin, range_data.Tmax)))

optimize_cold_range_accuracy(thermo_data, cold_range, test_temps, tolerance, max_iterations) ==
    IF thermo_data.ranges = <<>> THEN thermo_data
    ELSE Eval(LAMBDA refined :
                  IF refined.optimized
                  THEN [thermo_data EXCEPT
                           !.ranges = refined.ranges,
                           !.optimizations = Append(@, OptimizationEvent("cold_range_accuracy",
                                                                         refined.optimized,
                                                                         tolerance))]
                  ELSE thermo_data,
              RefineRanges([ranges |-> SortedByTmin(thermo_data.ranges), optimized |-> FALSE],
                           1, cold_range, test_temps, max_iterations))

(***************************************************************************)
(* The four stages called on a record in any order.  The records have the  *)
(* range layouts of the program's data: the two ranges of a database       *)
(* record, the three of an estimated one, a record that starts above the   *)
(* cold range, and a single range.  Their coefficient vectors are small    *)
(* rationals: a base vector, and for each higher range the same vector,    *)
(* the vector with a7 raised by 0.01 or by 2 (a gap that ten halvings do   *)
(* not close), with a6 raised by 10, or cut short.  One record has a short *)
(* vector in its lowest range, which starts above the cold range.          *)
(***************************************************************************)
MaxCalls == 3

T_REF == Q(29815, 100)

BaseCoefs == <<Q(7, 2), Zero, Zero, Zero, Zero, Num(0 - 1000), Num(4), Zero, Zero>>

UpperCoefs ==
    {BaseCoefs,
     [BaseCoefs EXCEPT ![7] = Add(@, Q(1, 100))],
     [BaseCoefs EXCEPT ![7] = Add(@, Num(2))],
     [BaseCoefs EXCEPT ![6] = Add(@, Num(10))],
     SubSeq(BaseCoefs, 1, 5)}

Layouts ==
    {<< <<K(200), K(1000)>>, <<K(1000), K(6000)>> >>,
     << <<K(500), K(1000)>>, <<K(1000), K(6000)>> >>,
     << <<K(100), K(400)>>, <<K(300), K(1000)>>, <<K(1000), K(6000)>> >>,
     << <<K(200), K(6000)>> >>}

\* the test_temps the refiner is called with
TestTemps == <<K(200), K(400)>>

ShortLowest ==
    ThermoData(<<Range(K(500), K(1000), T_REF, SubSeq(BaseCoefs, 1, 5)),
                 Range(K(1000), K(6000), T_REF, BaseCoefs)>>)

ThermoInputs ==
    {ThermoData([k \in 1..Len(layout) |->
                    Range(layout[k][1], layout[k][2], T_REF,
                          IF k = 1 THEN BaseCoefs ELSE upper[k])]) :
        layout \in Layouts, upper \in [1..3 -> UpperCoefs]}
    \cup {ShortLowest}

InitThermo ==
    /\ thermo \in ThermoInputs
    /\ before = thermo
    /\ stage = "none"
    /\ calls = 0
    /\ cache = EmptyCache
    /\ now = 0
    /\ last = Kept(NoLog)
    /\ formula = FormulaIdle
    /\ composition = Pending
    /\ GenIdle
    /\ RefreshIdle

Check ==
    /\ calls < MaxCalls
    /\ thermo' = check_transition_continuity(thermo)
    /\ before' = thermo
    /\ stage' = "check_transition_continuity"
    /\ calls' = calls + 1
    /\ UNCHANGED <<formulaVars, cacheVars, genVars, refreshVars>>

Optimize ==
    /\ calls < MaxCalls
    /\ thermo' = optimize_transition_continuity(thermo, TOLERANCE, MAX_ADJUSTMENTS)
    /\ before' = thermo
    /\ stage' = "optimize_transition_continuity"
    /\ calls' = calls + 1
    /\ UNCHANGED <<formulaVars, cacheVars, genVars, refreshVars>>

EnsureCold ==
    /\ calls < MaxCalls
    /\ thermo' = ensure_cold_range_coverage(thermo, TEMP_COLD_RANGE)
    /\ before' = thermo
    /\ stage' = "ensure_cold_range_coverage"
    /\ calls' = calls + 1
    /\ UNCHANGED <<formulaVars, cacheVars, genVars, refreshVars>>

OptimizeCold ==
    /\ calls < MaxCalls
    /\ thermo' = optimize_cold_range_accuracy(thermo, TEMP_COLD_RANGE, TestTemps,
                                              COLD_TOLERANCE, MAX_ITERATIONS)
    /\ before' = thermo
    /\ stage' = "optimize_cold_range_accuracy"
    /\ calls' = calls + 1
    /\ UNCHANGED <<formulaVars, cacheVars, genVars, refreshVars>>

NextThermo ==
    \/ Check
    \/ Optimize
    \/ EnsureCold
    \/ OptimizeCold

SpecThermo == InitThermo /\ [][NextThermo]_vars

(***************************************************************************)
(* generate_cantera_yaml, lines 3184-3195: the four stages called on the   *)
(* record of one resolved species, each on the record the one before       *)
(* returned.  "calls" is the position in these lines, "stage" the stage    *)
(* called last.                                                            *)
(***************************************************************************)
\* PIPELINE with the diagnostics and the optimizer before the extender
PIPELINE_DiagnosticsFirst ==
    <<"check_transition_continuity",
      "optimize_transition_continuity",
      "ensure_cold_range_coverage",
      "optimize_cold_range_accuracy">>

\* the calls of lines 3185, 3188, 3191 and 3195, in the order of the lines
PIPELINE ==
    <<"ensure_cold_range_coverage",
      "check_transition_continuity",
      "optimize_transition_continuity",
      "optimize_cold_range_accuracy">>

\* the next line to run calls the stage of this name
AtCall(name) == calls < Len(PIPELINE) /\ PIPELINE[calls + 1] = name

\* test_temps as optimize_cold_range_accuracy sets it when it is called
\* without one
ColdTestTemps == DefaultTestTemps(TEMP_COLD_RANGE)

\* thermo_data = ensure_cold_range_coverage(thermo_data)
CallEnsureCold ==
    /\ AtCall("ensure_cold_range_coverage")
    /\ thermo' = ensure_cold_range_coverage(thermo, TEMP_COLD_RANGE)
    /\ before' = thermo
    /\ stage' = "ensure_cold_range_coverage"
    /\ calls' = calls + 1
    /\ UNCHANGED <<formulaVars, cacheVars, genVars, refreshVars>>

\* thermo_data = check_transition_continuity(thermo_data)
CallCheck ==
    /\ AtCall("check_transition_continuity")
    /\ thermo' = check_transition_continuity(thermo)
    /\ before' = thermo
    /\ stage' = "check_transition_continuity"
    /\ calls' = calls + 1
    /\ UNCHANGED <<formulaVars, cacheVars, genVars, refreshVars>>

\* thermo_data = optimize_transition_continuity(thermo_data)
CallOptimize ==
    /\ AtCall("optimize_transition_continuity")
    /\ thermo' = optimize_transition_continuity(thermo, TOLERANCE, MAX_ADJUSTMENTS)
    /\ before' = thermo
    /\ stage' = "optimize_transition_continuity"
    /\ calls' = calls + 1
    /\ UNCHANGED <<formulaVars, cacheVars, genVars, refreshVars>>

\* thermo_data = optimize_cold_range_accuracy(thermo_data)
CallOptimizeCold ==
    /\ AtCall("optimize_cold_range_accuracy")
    /\ thermo' = optimize_cold_range_accuracy(thermo, TEMP_COLD_RANGE, ColdTestTemps,
                                              COLD_TOLERANCE, MAX_ITERATIONS)
    /\ before' = thermo
    /\ stage' = "optimize_cold_range_accuracy"
    /\ calls' = calls + 1
    /\ UNCHANGED <<formulaVars, cacheVars, genVars, refreshVars>>

NextPipeline ==
    \/ CallEnsureCold
    \/ CallCheck
    \/ CallOptimize
    \/ CallOptimizeCold

SpecPipeline == InitThermo /\ [][NextPipeline]_vars

(***************************************************************************)
(* generate_cantera_yaml: the loop over species_list                       *)
(***************************************************************************)
MaxList == 3

RECURSIVE ListsUpTo(_)
ListsUpTo(n) ==
    IF n = 0 THEN {<<>>}
    ELSE LET shorter == ListsUpTo(n - 1)
         IN shorter \cup {Append(l, x) : l \in shorter, x \in AllSpecies}

\* mutant of PhaseAppend: the name is listed before the data is looked at
PhaseAppendAlways(phase, species_name, thermo_data) == Append(phase, species_name)

\* if not thermo_data: continue / cantera_data["phases"][0]["species"].append(species_name)
PhaseAppend(phase, species_name, thermo_data) ==
    IF thermo_data = None THEN phase ELSE Append(phase, species_name)

\* species_entry, as far as the record is modelled: name and thermo.reference
SpeciesEntry(species_name, thermo_data) ==
    [name |-> species_name, reference |-> thermo_data.source, origin |-> thermo_data.origin]

EntriesAppend(entries, species_name, thermo_data) ==
    IF thermo_data = None THEN entries
    ELSE Append(entries, SpeciesEntry(species_name, thermo_data))

InitGen ==
    /\ cache = EmptyCache
    /\ now = 0
    /\ last = Kept(NoLog)
    /\ formula = FormulaIdle
    /\ composition = Pending
    /\ species_list \in ListsUpTo(MaxList)
    /\ pos = 1
    /\ phase_species = <<>>
    /\ species_entries = <<>>
    /\ raised = FALSE
    /\ ThermoIdle
    /\ RefreshIdle

ProcessSpecies ==
    /\ ~raised
    /\ pos <= Len(species_list)
    /\ LET species_name == species_list[pos]
       IN \E net \in NetChoices(cache, now, species_name) :
             LET r == get_thermo_data(cache, now, species_name, net)
                 thermo_data == r.log.result
             IN /\ cache' = r.C
                /\ last' = Kept(r.log)
                /\ IF thermo_data = Raised
                   \* nothing between line 3162 and the caller catches it
                   THEN /\ raised' = TRUE
                        /\ UNCHANGED <<pos, phase_species, species_entries>>
                   ELSE /\ phase_species' = PhaseAppend(phase_species, species_name, thermo_data)
                        /\ species_entries' = EntriesAppend(species_entries, species_name, thermo_data)
                        /\ pos' = pos + 1
                        /\ UNCHANGED raised
    /\ UNCHANGED <<now, species_list, formulaVars, thermoVars, refreshVars>>

NextGen == ProcessSpecies

SpecGen == InitGen /\ [][NextGen]_vars

(***************************************************************************)
(* decompose_formula applied to the inputs                                 *)
(***************************************************************************)
InitFormula ==
    /\ formula \in PlainInputs \cup HydrateInputs \cup ChargedInputs \cup RawInputs
    /\ composition = Pending
    /\ cache = EmptyCache
    /\ now = 0
    /\ last = Kept(NoLog)
    /\ GenIdle
    /\ ThermoIdle
    /\ RefreshIdle

Decompose ==
    /\ ~composition.done
    /\ formula # FormulaIdle
    /\ composition' = [done |-> TRUE, comp |-> decompose_formula(formula.text)]
    /\ UNCHANGED <<formula, cacheVars, genVars, thermoVars, refreshVars>>

NextFormula == Decompose

SpecFormula == InitFormula /\ [][NextFormula]_vars

(***************************************************************************)
(* The theoretical estimator's record.  a1..a5 are exact; s_r_298 is a sum *)
(* of logarithms and a7 subtracts from it the entropy polynomial at        *)
(* 298.15 K, so both are kept as the terms the code builds them from: two  *)
(* terms built from the same parts are the same number.                    *)
(***************************************************************************)
TEMP_LOW_RANGE == <<K(300), K(1000)>>
TEMP_MID_RANGE == <<K(1000), K(3000)>>
TEMP_HIGH_RANGE == <<K(3000), K(6000)>>

\* '+' in formula, '-' in formula
HasChar(f, c) == \E k \in 1..Len(f) : f[k] = c

\* cp_r = 2.5 and s_r_298 = 1.5 ln 298.15 + ln(mass of the element) + 1.2,
\* less 0.2 for '+', else plus 0.2 for '-'
calculate_monatomic_properties(f, comp) ==
    LET element == CHOOSE x \in DOMAIN comp : TRUE
    IN [cp_r |-> Q(5, 2),
        s_r_298 |-> [of |-> element,
                     shift |-> IF HasChar(f, "+") THEN Q(0 - 1, 5)
                               ELSE IF HasChar(f, "-") THEN Q(1, 5) ELSE Zero,
                     factor |-> One],
        is_monatomic |-> TRUE]

\* cp_r from the degrees of freedom; s_r_298 = 1.5 ln 298.15 +
\* ln(atom_count * 10) + atom_count * 1.5, times 0.95 for a charged species
calculate_polyatomic_properties(f, comp, has_charge) ==
    LET atom_count == SumValues(comp, DOMAIN comp)
        is_linear == \/ atom_count = 2
                     \/ /\ atom_count = 3
                        /\ <<"C">> \in DOMAIN comp
                        /\ <<"O">> \in DOMAIN comp
                        /\ comp[<<"O">>] = 2
        vib_dof == IF is_linear THEN 3 * atom_count - 5 ELSE 3 * atom_count - 6
        vib_contribution == Mul(Num(vib_dof), Q(4, 5))
    IN [cp_r |-> Add(IF is_linear THEN Q(7, 2) ELSE Num(4), vib_contribution),
        s_r_298 |-> [of |-> atom_count,
                     shift |-> Zero,
                     factor |-> IF has_charge THEN Q(95, 100) ELSE One],
        is_monatomic |-> FALSE]

\* a7 = s_r_298 - (a1 ln 298.15 + a2 298.15 + a3 298.15^2/2 + a4 298.15^3/3
\*                 + a5 298.15^4/4)
EntropyConstant(s_r_298, a) == [s_r_298 |-> s_r_298, less |-> a]

\* mutant of generate_coeffs_for_range: the hot multipliers from 3000 K on
generate_coeffs_for_range_HotFrom3000(cp_r, s_r_298, is_monatomic, temp_range) ==
    LET t_max == temp_range[2]
        a == IF is_monatomic THEN <<cp_r, Zero, Zero, Zero, Zero>>
             ELSE <<Mul(cp_r, Q(9, 10)), Mul(cp_r, Q(2, 100)), Mul(cp_r, Q(2, 1000)),
                    Neg(Mul(cp_r, Q(1, 10000))), Neg(Mul(cp_r, Q(1, 100000)))>>
        scale == IF Less(t_max, K(500))
                 THEN <<Q(11, 10), Q(8, 10), Q(6, 10), Q(4, 10), Q(2, 10)>>
                 ELSE IF ~Less(t_max, K(3000))
                 THEN <<Q(9, 10), Q(12, 10), Q(13, 10), Q(15, 10), Q(18, 10)>>
                 ELSE <<One, One, One, One, One>>
        scaled == [j \in 1..5 |-> Mul(a[j], scale[j])]
    IN scaled \o <<Num(0 - 1), EntropyConstant(s_r_298, scaled), Zero, Zero>>

generate_coeffs_for_range(cp_r, s_r_298, is_monatomic, temp_range) ==
    LET t_max == temp_range[2]
        a == IF is_monatomic THEN <<cp_r, Zero, Zero, Zero, Zero>>
             ELSE <<Mul(cp_r, Q(9, 10)), Mul(cp_r, Q(2, 100)), Mul(cp_r, Q(2, 1000)),
                    Neg(Mul(cp_r, Q(1, 10000))), Neg(Mul(cp_r, Q(1, 100000)))>>
        scale == IF Less(t_max, K(500))
                 THEN <<Q(11, 10), Q(8, 10), Q(6, 10), Q(4, 10), Q(2, 10)>>
                 ELSE IF Less(K(3000), t_max)
                 THEN <<Q(9, 10), Q(12, 10), Q(13, 10), Q(15, 10), Q(18, 10)>>
                 ELSE <<One, One, One, One, One>>
        scaled == [j \in 1..5 |-> Mul(a[j], scale[j])]
    IN scaled \o <<Num(0 - 1), EntropyConstant(s_r_298, scaled), Zero, Zero>>

\* the "temperature-ranges" of the estimator's record
generate_nasa_polynomials_from_properties(properties) ==
    LET Coeffs(temp_range) ==
            generate_coeffs_for_range(properties.cp_r, properties.s_r_298,
                                      properties.is_monatomic, temp_range)
    IN <<Range(TEMP_COLD_RANGE[1], TEMP_COLD_RANGE[2], T_REF, Coeffs(TEMP_COLD_RANGE)),
         Range(TEMP_LOW_RANGE[1], TEMP_LOW_RANGE[2], T_REF, Coeffs(TEMP_LOW_RANGE)),
         Range(TEMP_MID_RANGE[1], TEMP_HIGH_RANGE[2], T_REF, Coeffs(TEMP_MID_RANGE))>>

\* calculate_thermo_from_first_principles, lines 2618-2634, for a formula
\* that it returns a record for
EstimatedRanges(f) ==
    LET comp == decompose_formula(f)
        is_monatomic == Cardinality(DOMAIN comp) = 1 /\ \A x \in DOMAIN comp : comp[x] = 1
        has_charge == HasChar(f, "+") \/ HasChar(f, "-")
    IN generate_nasa_polynomials_from_properties(
           IF is_monatomic THEN calculate_monatomic_properties(f, comp)
           ELSE calculate_polyatomic_properties(f, comp, has_charge))

InitEstimate ==
    /\ formula \in PlainInputs \cup HydrateInputs \cup ChargedInputs
    /\ composition = Pending
    /\ cache = EmptyCache
    /\ now = 0
    /\ last = Kept(NoLog)
    /\ GenIdle
    /\ ThermoIdle
    /\ RefreshIdle

\* one call of calculate_thermo_from_first_principles: "thermo" takes the
\* ranges of the record, and stays empty where None is returned or the
\* ValueError of decompose_formula is raised
Estimate ==
    /\ stage = "none"
    /\ formula # FormulaIdle
    /\ LET made == calculate_thermo_from_first_principles(formula.text)
       IN thermo' = IF made \in {None, Raised} THEN thermo
                    ELSE ThermoData(EstimatedRanges(formula.text))
    /\ composition' = [done |-> TRUE, comp |-> decompose_formula(formula.text)]
    /\ before' = thermo
    /\ stage' = "calculate_thermo_from_first_principles"
    /\ calls' = calls + 1
    /\ UNCHANGED <<formula, cacheVars, genVars, refreshVars>>

NextEstimate == Estimate

SpecEstimate == InitEstimate /\ [][NextEstimate]_vars

(***************************************************************************)
(* Properties of the resolver and the cache (Spec)                         *)
(***************************************************************************)
Resolved == last.species # <<>>

\* C1: get_thermo_data returns the record of the first source, in the order
\* burcat, cea, nasa, nist, whose provider yields data: its "source" is that
\* source's identifier, every other field is that source's record unchanged,
\* no lower-priority provider is queried after it and nothing else is merged in
C1_FirstSourceWins ==
    \A i \in 1..Len(SOURCES) :
        LET s == SOURCES[i]
        IN (/\ Resolved
            /\ last.yielded[s] # None
            /\ \A j \in 1..(i - 1) : last.yielded[SOURCES[j]] = None)
           => /\ last.result.source = s
              /\ last.result = [last.yielded[s] EXCEPT !.source = s]
              /\ last.yielded[s] = DbRecord(s, last.species)
              /\ last.queried = SubSeq(SOURCES, 1, i)
              /\ \A j \in (i + 1)..Len(SOURCES) : last.yielded[SOURCES[j]] = None
              /\ ~last.estimator

\* burcat could not answer, nasa did: the record is nasa's, relabelled "nasa"
C1_Witness ==
    /\ last.species = N2
    /\ last.queried = <<"burcat", "cea", "nasa">>
    /\ last.result = Rec(N2, "nasa", "nasa")
    /\ "burcat" \in last.fetched

Touched(ts, t) == ts.st = "valid" /\ t - ts.t <= CHECK_INTERVAL
Expired(ts, t) == ts.st = "valid" /\ t - ts.t > CHECK_INTERVAL

\* C2 as stated: a timestamp touched within the 7-day interval means that the
\* next resolution of any species through that provider fetches nothing
C2_Original ==
    \A s \in SourceSet, sp \in Species : \A n \in Networks(s) :
        Touched(cache.ts[s], now) => Provider(s, cache, now, sp, n).fetches = <<>>

\* C2 amended: a timestamp touched within the 7-day interval and a present,
\* parseable whole-database cache file mean that the next resolution of any
\* species through that provider fetches nothing
C2_FreshAndCachedNoFetch ==
    \A s \in SourceSet, sp \in Species : \A n \in Networks(s) :
        (Touched(cache.ts[s], now) /\ cache.db[s] = "valid")
            => Provider(s, cache, now, sp, n).fetches = <<>>

\* every source was refreshed exactly CHECK_INTERVAL days ago, and the last
\* resolution went through all four providers without a fetch
C2_Witness ==
    /\ last.species = Xe
    /\ last.queried = SOURCES
    /\ last.fetched = {}
    /\ now = CHECK_INTERVAL
    /\ \A s \in SourceSet : cache.ts[s] = ValidTs(0) /\ cache.db[s] = "valid"

\* C3 as stated: an expired timestamp means that the next resolution of a
\* species through that provider makes at least one fetch attempt
C3_Original ==
    \A s \in SourceSet, sp \in Species : \A n \in Networks(s) :
        Expired(cache.ts[s], now) => Provider(s, cache, now, sp, n).fetches # <<>>

\* C3 amended: an expired timestamp means that the next resolution, through
\* that provider, of a species that has no readable per-species cache file of
\* that source makes at least one fetch attempt
C3_ExpiredAndUncachedFetches ==
    \A s \in SourceSet, sp \in Species : \A n \in Networks(s) :
        (Expired(cache.ts[s], now) /\ cache.sp[s][sp].st # "valid")
            => Provider(s, cache, now, sp, n).fetches # <<>>

\* burcat's timestamp is expired, its database is cached, and the last
\* resolution tried the network for it (in vain: the timestamp is still old)
C3_Witness ==
    /\ last.species = Xe
    /\ "burcat" \in last.fetched
    /\ Expired(cache.ts["burcat"], now)
    /\ cache.db["burcat"] = "valid"

\* C4: should_update_database is true exactly when the timestamp file is
\* absent, unreadable, or more than 7 days old, whatever the cached database
\* and records hold; a provider that consults it sees that value
C4_ShouldUpdate ==
    \A s \in SourceSet :
        LET expected == \/ cache.ts[s].st = "absent"
                        \/ cache.ts[s].st = "corrupt"
                        \/ (cache.ts[s].st = "valid" /\ now - cache.ts[s].t > CHECK_INTERVAL)
        IN /\ should_update_database(cache.ts[s], now) = expected
           /\ \A d \in {"valid", "corrupt"} : \A n \in Networks(s) :
                 UpdateDatabaseIfNeeded(s, [cache EXCEPT !.db[s] = d], now, n).checked
                    = (IF expected THEN "stale" ELSE "fresh")

\* a corrupted timestamp next to a cached database made the last resolution
\* go to the network
C4_Witness ==
    \E s \in SourceSet :
        /\ cache.ts[s].st = "corrupt"
        /\ cache.db[s] = "valid"
        /\ s \in last.fetched

SameAnswer(p, q) == p.data = q.data /\ p.fetches = q.fetches

\* C5: for every provider, a corrupted per-species cache file or a corrupted
\* whole-database cache file gives the same returned record and the same
\* fetch attempts as that file being absent
C5_CorruptIsMiss ==
    \A s \in SourceSet, sp \in Species : \A n \in Networks(s) :
        /\ cache.sp[s][sp].st = "corrupt"
              => SameAnswer(Provider(s, cache, now, sp, n),
                            Provider(s, [cache EXCEPT !.sp[s][sp] = AbsentFile], now, sp, n))
        /\ cache.db[s] = "corrupt"
              => SameAnswer(Provider(s, cache, now, sp, n),
                            Provider(s, [cache EXCEPT !.db[s] = "absent"], now, sp, n))

\* a corrupted database file under a fresh timestamp sent the last resolution
\* to the network
C5_Witness ==
    \E s \in SourceSet :
        /\ cache.db[s] = "corrupt"
        /\ Touched(cache.ts[s], now)
        /\ s \in last.fetched

\* C6: the estimator is invoked only after all four providers were queried in
\* priority order and none yielded data, never when a source yields a
\* record, and its record is tagged theoretical, not with a source identifier
C6_EstimatorLast ==
    /\ last.estimator
          => /\ last.queried = SOURCES
             /\ \A s \in SourceSet : last.yielded[s] = None
    /\ (\E s \in SourceSet : last.yielded[s] # None) => ~last.estimator
    /\ (last.estimator /\ last.result # None)
          => /\ last.result.source = THEORETICAL
             /\ last.result.source \notin SourceSet
    /\ (~last.estimator /\ Resolved) => last.result.source \in SourceSet

C6_Witness ==
    /\ last.species = Xe
    /\ last.estimator
    /\ last.queried = SOURCES
    /\ last.result = Rec(Xe, THEORETICAL, "theoretical")

(***************************************************************************)
(* Properties of the catalog (SpecGen)                                     *)
(***************************************************************************)
GenDone == pos = Len(species_list) + 1

\* no source has the species and the estimator fails on it
Unresolvable(sp) ==
    /\ \A s \in SourceSet : sp \notin DbKeys[s]
    /\ decompose_formula(sp) \in {EmptyDict, ValueError}

RECURSIVE Keep(_)
Keep(l) ==
    IF l = <<>> THEN <<>>
    ELSE (IF Unresolvable(Head(l)) THEN <<>> ELSE <<Head(l)>>) \o Keep(Tail(l))

Names(entries) == [i \in 1..Len(entries) |-> entries[i].name]

\* C7: a species for which all four sources and the estimator fail is left
\* out of the phase species list and of the species entries, the run goes
\* on, and the catalog holds exactly the resolvable input species in input
\* order
C7_SkipUnresolvable ==
    /\ phase_species = Keep(SubSeq(species_list, 1, pos - 1))
    /\ Names(species_entries) = phase_species
    /\ ~raised

C7_Witness ==
    /\ GenDone
    /\ species_list = <<Electron, N2, Electron>>
    /\ phase_species = <<N2>>
    /\ Len(species_entries) = 1

(***************************************************************************)
(* Properties of decompose_formula (SpecFormula)                           *)
(***************************************************************************)
\* C8: for a formula of the grammar, decompose_formula returns for each
\* element the sum over its occurrences of subscript times the product of
\* the multipliers of all enclosing groups
C8_NestedGroups ==
    (composition.done /\ ~formula.raw /\ formula.hyd = NoHydrate /\ formula.chg = <<>>)
        => composition.comp = Counts(formula.main, 1)

\* Ca((OH)2H)3
C8_Witness ==
    /\ composition.done
    /\ formula.text = <<"C", "a", "(", "(", "O", "H", ")", "2", "H", ")", "3">>
    /\ composition.comp = [x \in {<<"C", "a">>, <<"O">>, <<"H">>} |->
                              IF x = <<"C", "a">> THEN 1 ELSE IF x = <<"O">> THEN 6 ELSE 9]

\* C9: for M.nH2O, decompose_formula returns the composition of M plus n
\* times {H: 2, O: 1}, n = 1 when omitted
C9_Hydrate ==
    (composition.done /\ ~formula.raw /\ formula.hyd # NoHydrate)
        => composition.comp
              = DictMerge(Counts(formula.main, 1),
                          [x \in {<<"H">>, <<"O">>} |->
                              IF x = <<"H">> THEN 2 * NumOf(formula.hyd) ELSE NumOf(formula.hyd)])

\* C10: decompose_formula(F + c) = decompose_formula(F) for every charge
\* suffix c
C10_ChargeSuffix ==
    (composition.done /\ ~formula.raw /\ formula.chg # <<>>)
        => composition.comp = decompose_formula(Render(formula.main))

\* the positions of the '(' of t that no ')' closes: a '(' at i is closed at
\* the first j after it where the ')' outnumber the '(' in between by one
Opens(t, a, b) == Cardinality({k \in a..b : t[k] = "("})
Closes(t, a, b) == Cardinality({k \in a..b : t[k] = ")"})
Unclosed(t) ==
    {i \in 1..Len(t) :
        /\ t[i] = "("
        /\ \A j \in (i + 1)..Len(t) : Closes(t, i + 1, j) - Opens(t, i + 1, j) < 1}

FirstUnclosed(t) == CHOOSE i \in Unclosed(t) : \A k \in Unclosed(t) : i <= k

\* C11 (second half): when a '(' has no matching ')', the span from it to the
\* end is skipped and the elements parsed before it are reported
C11_BrokenSpanSkipped ==
    (composition.done /\ formula.raw) =>
        LET clean == Remove(formula.text, {"+", "-"})
        IN Unclosed(clean) # {}
              => composition.comp
                    = decompose_formula(SubSeq(clean, 1, FirstUnclosed(clean) - 1))

\* C11: for every string input decompose_formula returns a map without
\* raising, and when a '(' has no matching ')' the broken span is skipped and
\* the elements parsed outside it are reported
C11_NeverRaises ==
    (composition.done /\ formula.raw) =>
        /\ composition.comp # ValueError
        /\ C11_BrokenSpanSkipped

\* C12: every composition decompose_formula returns maps each element symbol
\* to a strictly positive count
C12_PositiveCounts ==
    (composition.done /\ composition.comp # ValueError) =>
        \A x \in DOMAIN composition.comp : composition.comp[x] > 0

(***************************************************************************)
(* Claims about the pipeline stages, checked under SpecThermo               *)
(***************************************************************************)
IsPrefix(s, t) == Len(s) <= Len(t) /\ SubSeq(t, 1, Len(s)) = s

\* the last call was of the named stage: before is the record it was given
\* and thermo the record it returned
Called(name) == stage = name

\* C13: across any sequence of calls of the four stages, the record's
\* transition_diagnostics only grows by appending: the entries present before a
\* call are, in the same order and unmodified, the first entries after it
C13_DiagnosticsAppendOnly ==
    IsPrefix(before.diagnostics, thermo.diagnostics)

\* a second batch of entries was appended behind an earlier one by the
\* optimizer's re-check
C13_Witness ==
    /\ stage = "optimize_transition_continuity"
    /\ calls >= 2
    /\ Len(thermo.ranges) >= 2
    /\ Len(thermo.diagnostics) >= 2 * (Len(thermo.ranges) - 1)

\* every adjacent pair of ranges is within tolerance at its boundary
AllWithinTolerance(ranges) ==
    \A i \in 1..(Len(ranges) - 1) : Diagnostic(ranges[i], ranges[i + 1]).within_tolerance

\* C14: the optimizer, called on a record whose adjacent pairs are all within
\* tolerance, changes no coefficient and appends an optimization event whose
\* applied field is false
C14_IdempotentWithEvent ==
    (/\ Called("optimize_transition_continuity")
     /\ Len(before.ranges) >= 2
     /\ AllWithinTolerance(before.ranges))
    => /\ thermo.ranges = before.ranges
       /\ Len(thermo.optimizations) = Len(before.optimizations) + 1
       /\ ~thermo.optimizations[Len(thermo.optimizations)].applied

\* C20: a call of check_transition_continuity on a record with n >= 2 ranges
\* appends exactly n - 1 entries, one per adjacent pair in range order; each
\* records Cp/R, H/RT and S/R of the upper range minus those of the lower
\* range at the lower range's T-max, and is flagged within tolerance exactly
\* when the three absolute differences are below 1e-3
C20_CheckAppends ==
    (Called("check_transition_continuity") /\ Len(before.ranges) >= 2)
    => LET n == Len(before.ranges)
           old == Len(before.diagnostics)
       IN /\ thermo.ranges = before.ranges
          /\ Len(thermo.diagnostics) = old + n - 1
          /\ \A i \in 1..(n - 1) :
                LET entry == thermo.diagnostics[old + i]
                    lower == before.ranges[i]
                    upper == before.ranges[i + 1]
                    T == lower.Tmax
                    cp == Sub(compute_cp(upper.coefficients, T),
                              compute_cp(lower.coefficients, T))
                    h == Sub(compute_h(upper.coefficients, T),
                             compute_h(lower.coefficients, T))
                    s == Sub(compute_s(upper.coefficients, T),
                             compute_s(lower.coefficients, T))
                IN /\ entry.transition_temperature = T
                   /\ entry.cp_discontinuity = cp
                   /\ entry.h_discontinuity = h
                   /\ entry.s_discontinuity = s
                   /\ entry.within_tolerance
                         <=> (/\ Less(Abs(cp), Q(1, 1000))
                              /\ Less(Abs(h), Q(1, 1000))
                              /\ Less(Abs(s), Q(1, 1000)))

\* a check of three ranges found one pair out of tolerance and one within
C20_Witness ==
    /\ stage = "check_transition_continuity"
    /\ Len(thermo.ranges) = 3
    /\ Len(thermo.diagnostics) = 2
    /\ ~thermo.diagnostics[1].within_tolerance
    /\ thermo.diagnostics[2].within_tolerance
    /\ thermo.diagnostics[1].s_discontinuity = Q(1, 100)

\* the upper range carries the lower range's nine coefficients with a7 raised
\* by 0.01, and starts where the lower range ends
OffsetPair(lower, upper) ==
    /\ Len(lower.coefficients) = 9
    /\ upper.coefficients = [lower.coefficients EXCEPT ![7] = Add(@, Q(1, 100))]
    /\ upper.Tmin = lower.Tmax

\* the pairs below the i-th carry one coefficient vector each, so the
\* optimizer reaches the i-th pair with its lower range as given
LowerPairsEqual(ranges, i) ==
    \A k \in 1..(i - 1) : ranges[k + 1].coefficients = ranges[k].coefficients

\* C15: given two adjacent ranges that are continuous at their boundary except
\* for an a7 offset of 0.01 in the upper range, the optimizer (tolerance 1e-3,
\* at most 10 iterations) ends with the entropy discontinuity at the boundary
\* below 1e-3 and the heat-capacity discontinuity still within tolerance, a1..a5
\* of the upper range being as they were
C15_EntropyOffsetConverges ==
    Called("optimize_transition_continuity")
    => \A i \in 1..(Len(before.ranges) - 1) :
          (OffsetPair(before.ranges[i], before.ranges[i + 1])
           /\ LowerPairsEqual(before.ranges, i))
          => LET after == Diagnostic(thermo.ranges[i], thermo.ranges[i + 1])
             IN /\ Len(thermo.ranges) = Len(before.ranges)
                /\ Less(Abs(after.s_discontinuity), Q(1, 1000))
                /\ Less(Abs(after.cp_discontinuity), Q(1, 1000))
                /\ SubSeq(thermo.ranges[i + 1].coefficients, 1, 5)
                      = SubSeq(before.ranges[i + 1].coefficients, 1, 5)

\* the optimizer was given a database-like pair with the a7 offset and halved
\* the offset four times: 0.01 / 16 is left
C15_Witness ==
    /\ Called("optimize_transition_continuity")
    /\ Len(before.ranges) = 2
    /\ OffsetPair(before.ranges[1], before.ranges[2])
    /\ Diagnostic(thermo.ranges[1], thermo.ranges[2]).s_discontinuity = Q(1, 1600)

\* C16: given a record whose lowest range starts at 200 K, the extender with
\* the default band 100-400 K returns a record with a new range from 100 K to
\* 200 K that carries the coefficients of the lowest range it was given
C16_ExtendsBelow200 ==
    (/\ Called("ensure_cold_range_coverage")
     /\ before.ranges # <<>>
     /\ SortedByTmin(before.ranges)[1].Tmin = K(200))
    => \E k \in 1..Len(thermo.ranges) :
          /\ thermo.ranges[k].Tmin = K(100)
          /\ thermo.ranges[k].Tmax = K(200)
          /\ thermo.ranges[k].coefficients = SortedByTmin(before.ranges)[1].coefficients

(***************************************************************************)
(* Claims about lines 3184-3195, checked under SpecPipeline                *)
(***************************************************************************)
\* the ranges are sorted ascending by T-min, start at or below t_low, end at
\* or above t_high and leave no gap between consecutive ranges
Covers(ranges, t_low, t_high) ==
    /\ ranges # <<>>
    /\ \A k \in 1..(Len(ranges) - 1) :
          /\ LessEq(ranges[k].Tmin, ranges[k + 1].Tmin)
          /\ LessEq(ranges[k + 1].Tmin, ranges[k].Tmax)
    /\ LessEq(ranges[1].Tmin, t_low)
    /\ \E k \in 1..Len(ranges) : LessEq(t_high, ranges[k].Tmax)

\* the four calls have been made
Emitted == calls = Len(PIPELINE)

\* C17: every record the per-species pipeline emits has its ranges sorted
\* ascending by T-min and covering 100 K to 6000 K without a gap
C17_EmittedRangesCover ==
    Emitted => Covers(thermo.ranges, K(100), K(6000))

\* C19 as stated: for each resolved species the stages run in the order
\* diagnostics, optimizer, then extender and refiner
C19_DiagnosticsFirst ==
    /\ calls = 1 => Called("check_transition_continuity")
    /\ calls = 2 => Called("optimize_transition_continuity")
    /\ calls = 3 => Called("ensure_cold_range_coverage")
    /\ calls = 4 => Called("optimize_cold_range_accuracy")

\* C19, amended: for each resolved species the stages run once each in the
\* order extender, diagnostics, optimizer, refiner
C19_ExtenderFirst ==
    /\ calls <= 4
    /\ calls = 0 => Called("none")
    /\ calls = 1 => Called("ensure_cold_range_coverage")
    /\ calls = 2 => Called("check_transition_continuity")
    /\ calls = 3 => Called("optimize_transition_continuity")
    /\ calls = 4 => Called("optimize_cold_range_accuracy")

\* the extender has added a range below the record's lowest one, and the
\* diagnostics called after it have an entry for each pair of the extended
\* list
C19_Witness ==
    /\ calls = 2
    /\ Len(thermo.ranges) = 3
    /\ thermo.ranges[1].Tmin = K(100)
    /\ thermo.ranges[1].Tmax = K(500)
    /\ Len(thermo.diagnostics) = 2

(***************************************************************************)
(* Claims about a provider's endpoints, checked under SpecRefresh          *)
(***************************************************************************)
\* endpoint k of the source answered
Answered(s, k) == network[s][k] = "ok"

\* the call went to the network for the source
Refreshed(s) == attempt.fetches[s] # <<>>

\* the endpoints are requested in list order, each at most once, none after
\* the first successful response, and the one after each that failed
EndpointsInOrder(s) ==
    LET tried == attempt.fetches[s]
    IN /\ \A k \in 1..Len(tried) : tried[k] = k
       /\ \A k \in 1..Len(tried) : \A j \in 1..(k - 1) : ~Answered(s, tried[j])
       /\ \A k \in 1..Len(tried) :
             (~Answered(s, tried[k]) /\ tried[k] < NumUrls[s]) => k < Len(tried)

AllFailed(s) == Refreshed(s) /\ \A k \in 1..NumUrls[s] : ~Answered(s, k)

\* after the source, the resolver queried the next one, or the estimator
\* after the last
Proceeds(s) ==
    \E i \in 1..Len(SOURCES) :
        /\ SOURCES[i] = s
        /\ IF i < Len(SOURCES)
           THEN i + 1 <= Len(attempt.queried) /\ attempt.queried[i + 1] = SOURCES[i + 1]
           ELSE attempt.estimator

\* C18 as stated: a provider that refreshes requests its endpoints in list
\* order, each at most once and none after the first successful response,
\* taking a connection error or a non-success status as that endpoint's
\* failure; if every endpoint fails the source yields no record and the
\* resolver proceeds to the next source
C18_AllFailedNoRecord ==
    \A s \in SourceSet :
        /\ EndpointsInOrder(s)
        /\ AllFailed(s) => (attempt.yielded[s] = None /\ Proceeds(s))

\* C18, amended: the same of the endpoints; if every endpoint fails the
\* source yields the species' record of its cached database file when that
\* file is readable and has the species, and otherwise no record, and then
\* the resolver proceeds to the next source
C18_AllFailedFallsBack ==
    \A s \in SourceSet :
        /\ EndpointsInOrder(s)
        /\ AllFailed(s) =>
              /\ attempt.yielded[s] =
                    (IF cache.db[s] = "valid" /\ attempt.species \in DbKeys[s]
                     THEN DbRecord(s, attempt.species) ELSE None)
              /\ attempt.yielded[s] = None => Proceeds(s)

\* a connection error, then a non-success status, then an answer: three
\* endpoints were requested and the source gave the record; and every
\* endpoint of the next source failed
C18_Witness ==
    /\ attempt.species = N2
    /\ network["burcat"][1] = "error"
    /\ network["burcat"][2] = "status"
    /\ network["burcat"][3] = "ok"
    /\ attempt.fetches["burcat"] = <<1, 2, 3>>
    /\ attempt.yielded["burcat"] = DbRecord("burcat", N2)

(***************************************************************************)
(* More claims about the pipeline stages, checked under SpecThermo         *)
(***************************************************************************)
\* the optimizer was called, went through its loop, and its re-check still
\* finds a pair outside the tolerance
NotConverged ==
    /\ Called("optimize_transition_continuity")
    /\ Len(thermo.optimizations) = Len(before.optimizations) + 1
    /\ NeedsAdjustment(SubSeq(thermo.diagnostics, Len(before.diagnostics) + 1,
                              Len(thermo.diagnostics)))

\* what the optimizer records after a run that brought every pair within the
\* tolerance
ConvergedEvent == OptimizationEvent("transition_continuity", TRUE, TOLERANCE)

\* C21: when the optimizer uses up its iterations on a pair without bringing
\* the three discontinuities within the tolerance, it raises nothing and the
\* event it records differs from the event of a converged run
C21_NonConvergenceReported ==
    NotConverged => thermo.optimizations[Len(thermo.optimizations)] # ConvergedEvent

\* some range of the record reaches into the band, fully or partially
BandTouched(ranges, cold_range) ==
    \E k \in 1..Len(ranges) :
        /\ LessEq(ranges[k].Tmin, cold_range[2])
        /\ LessEq(cold_range[1], ranges[k].Tmax)

FirstGap(compute(_, _), ranges) ==
    Sub(compute(ranges[2].coefficients, ranges[1].Tmax),
        compute(ranges[1].coefficients, ranges[1].Tmax))

\* a gap that was halved at most max_adjustments times
HalvedAtMost(after, gap, max_adjustments) ==
    ~Less(Mul(Abs(after), Num(2 ^ max_adjustments)), Abs(gap))

\* C23: optimize_transition_continuity changes only coefficient vectors of
\* upper ranges, in at most max_adjustments passes per pair: the lowest
\* range's coefficients, every range's a8 and a9 and all T-min, T-max and
\* T-ref values are as they were
C23_OptimizerFrame ==
    Called("optimize_transition_continuity") =>
        /\ Len(thermo.ranges) = Len(before.ranges)
        /\ \A k \in 1..Len(before.ranges) :
              /\ thermo.ranges[k].Tmin = before.ranges[k].Tmin
              /\ thermo.ranges[k].Tmax = before.ranges[k].Tmax
              /\ thermo.ranges[k].Tref = before.ranges[k].Tref
              /\ Len(thermo.ranges[k].coefficients) = Len(before.ranges[k].coefficients)
              /\ \A j \in {8, 9} \cap DOMAIN before.ranges[k].coefficients :
                    thermo.ranges[k].coefficients[j] = before.ranges[k].coefficients[j]
        /\ before.ranges # <<>> =>
              thermo.ranges[1].coefficients = before.ranges[1].coefficients
        /\ (/\ Len(before.ranges) >= 2
            /\ Len(before.ranges[1].coefficients) >= 7
            /\ Len(before.ranges[2].coefficients) >= 7) =>
              /\ HalvedAtMost(FirstGap(compute_s, thermo.ranges),
                              FirstGap(compute_s, before.ranges), MAX_ADJUSTMENTS)
              /\ HalvedAtMost(FirstGap(compute_h, thermo.ranges),
                              FirstGap(compute_h, before.ranges), MAX_ADJUSTMENTS)

\* the optimizer changed the second and the third range of a record
C23_Witness ==
    /\ Called("optimize_transition_continuity")
    /\ Len(thermo.ranges) = 3
    /\ thermo.ranges[2].coefficients # before.ranges[2].coefficients
    /\ thermo.ranges[3].coefficients # before.ranges[3].coefficients

\* a range the refiner works on: it overlaps the band, has a6 and a7, and a
\* test temperature lies inside it
Refinable(range_data, cold_range, test_temps) ==
    /\ Overlaps(range_data, cold_range)
    /\ Len(range_data.coefficients) >= 7
    /\ OriginalValues(range_data.coefficients, test_temps,
                      range_data.Tmin, range_data.Tmax) # <<>>

\* C24: optimize_cold_range_accuracy stores, for each range overlapping the
\* cold band, the candidate of lowest total error against the pre-refinement
\* values, which in exact arithmetic is the pre-refinement vector itself: no
\* coefficient changes, and a 'cold_range_accuracy' event with applied = true
\* is still recorded
C24_RefinerKeepsCoefficients ==
    Called("optimize_cold_range_accuracy") =>
        /\ thermo.ranges = before.ranges
        /\ thermo.diagnostics = before.diagnostics
        /\ thermo.optimizations =
              IF \E k \in 1..Len(before.ranges) :
                     Refinable(before.ranges[k], TEMP_COLD_RANGE, TestTemps)
              THEN Append(before.optimizations,
                          OptimizationEvent("cold_range_accuracy", TRUE, COLD_TOLERANCE))
              ELSE before.optimizations

\* the refiner ran on two ranges of an estimated record that the optimizer had
\* adjusted
C24_Witness ==
    /\ Called("optimize_cold_range_accuracy")
    /\ Len(before.ranges) = 3
    /\ Refinable(before.ranges[1], TEMP_COLD_RANGE, TestTemps)
    /\ Refinable(before.ranges[2], TEMP_COLD_RANGE, TestTemps)
    /\ before.optimizations # <<>>
    /\ Len(thermo.optimizations) = Len(before.optimizations) + 1

\* the optimizer ran its adjustment loops in the call just made
Adjusted ==
    /\ Called("optimize_transition_continuity")
    /\ Len(thermo.optimizations) = Len(before.optimizations) + 1

\* the ranges as the pair loop leaves them once pair (j, j+1) is done and
\* before it turns to the pairs above
AfterPair(ranges, j) ==
    PairLoop(SubSeq(ranges, 1, j + 1), 1, TOLERANCE, MAX_ADJUSTMENTS)

\* C28: within one call of optimize_transition_continuity on a record of three
\* or more ranges, the adjustment of a pair does not change the discontinuities
\* of the pairs below it: each pair is, when the call returns, as its own
\* adjustment left it, so a pair brought within tolerance is still within
\* tolerance in the diagnostics of the closing check
C28_EarlierPairsKept ==
    (Adjusted /\ Len(before.ranges) >= 3) =>
        \A j \in 1..(Len(before.ranges) - 2) :
            LET mid == AfterPair(before.ranges, j)
                left == Diagnostic(mid[j], mid[j + 1])
                n == Len(thermo.diagnostics) - (Len(before.ranges) - 1)
            IN /\ Diagnostic(thermo.ranges[j], thermo.ranges[j + 1]) = left
               /\ thermo.diagnostics[n + j] = left

\* the first pair of a three-range record was out of tolerance and brought
\* within it, and the second pair was adjusted after it
C28_Witness ==
    /\ Adjusted
    /\ Len(before.ranges) = 3
    /\ ~Diagnostic(before.ranges[1], before.ranges[2]).within_tolerance
    /\ Diagnostic(thermo.ranges[1], thermo.ranges[2]).within_tolerance
    /\ thermo.ranges[3].coefficients # before.ranges[3].coefficients

(* Claims about the theoretical estimator, checked under SpecEstimate *)
\* the upper vector minus the lower, a7 being the same s_r_298 less the
\* entropy polynomial of a1..a5 at 298.15 K
CoefsGap(lower, upper) ==
    LET d == [j \in 1..6 |-> Sub(upper[j], lower[j])]
    IN d \o <<Neg(compute_s(SubSeq(d, 1, 5) \o <<Zero, Zero>>, T_REF)), Zero, Zero>>

\* C29: a record the estimator returns has exactly the three ranges 100-400,
\* 300-1000 and 1000-6000 K; the second and the third carry the same
\* coefficient vector, the unscaled one, and only the first is rescaled (a1
\* times 1.1), so Cp/R, H/RT and S/R have no gap at the 1000 K boundary
C29_UpperRangesIdentical ==
    Called("calculate_thermo_from_first_principles") =>
        IF calculate_thermo_from_first_principles(formula.text) \in {None, Raised}
        THEN thermo.ranges = <<>>
        ELSE /\ Len(thermo.ranges) = 3
             /\ <<thermo.ranges[1].Tmin, thermo.ranges[1].Tmax>> = <<K(100), K(400)>>
             /\ <<thermo.ranges[2].Tmin, thermo.ranges[2].Tmax>> = <<K(300), K(1000)>>
             /\ <<thermo.ranges[3].Tmin, thermo.ranges[3].Tmax>> = <<K(1000), K(6000)>>
             /\ thermo.ranges[3].coefficients = thermo.ranges[2].coefficients
             /\ thermo.ranges[1].coefficients[1]
                   = Mul(thermo.ranges[2].coefficients[1], Q(11, 10))
             /\ LET gap == CoefsGap(thermo.ranges[2].coefficients,
                                    thermo.ranges[3].coefficients)
                    T == thermo.ranges[2].Tmax
                IN /\ compute_cp(gap, T) = Zero
                   /\ compute_h(gap, T) = Zero
                   /\ compute_s(gap, T) = Zero

\* the estimator returned the record of a charged polyatomic species
C29_Witness ==
    /\ Called("calculate_thermo_from_first_principles")
    /\ Len(thermo.ranges) = 3
    /\ formula.chg # <<>>
    /\ thermo.ranges[2].coefficients[5] # Zero
    /\ thermo.ranges[1].coefficients[5] # thermo.ranges[2].coefficients[5]

(* More claims about the resolver and the cache, checked under Spec *)
\* C25: the cache is written by the providers only, before the record is
\* handed on: a per-species file that reads as valid holds the record of its
\* source's database, with the provenance string and the coefficients of that
\* database, whatever the resolver relabelled and returned since
C25_CacheHoldsOriginals ==
    \A s \in SourceSet : \A sp \in AllSpecies :
        cache.sp[s][sp].st = "valid" => cache.sp[s][sp].data = DbRecord(s, sp)

\* a resolution answered from the per-species file and returned the record
\* relabelled, and the file still holds the database's own label
C25_Witness ==
    /\ last.species = N2
    /\ last.fetched = {}
    /\ last.result = Rec(N2, "burcat", "burcat")
    /\ last.result # DbRecord("burcat", N2)
    /\ cache.sp["burcat"][N2] = ValidFile(DbRecord("burcat", N2))
    /\ now > 0

(* More claims about a provider's refresh, checked under SpecRefresh *)
\* the step is a call in which every endpoint of the source was requested
\* and none answered
FailedRefresh(s) ==
    /\ attempt'.fetches[s] # <<>>
    /\ \A k \in 1..NumUrls[s] : network[s][k] # "ok"

\* C26: a source's timestamp and database file are written only after a
\* successful download: a call in which every endpoint fails leaves both as
\* they were, still answers from a database file cached earlier, stale or not,
\* and leaves the source stale, so that the next call that gets to the
\* database step of the source goes to the network again
C26_WrittenOnlyAfterDownload ==
    [][\A s \in SourceSet :
          /\ (cache'.ts[s] # cache.ts[s] \/ cache'.db[s] # cache.db[s]) =>
                \E k \in 1..Len(attempt'.fetches[s]) :
                    network[s][attempt'.fetches[s][k]] = "ok"
          /\ FailedRefresh(s) =>
                /\ cache'.ts[s] = cache.ts[s]
                /\ cache'.db[s] = cache.db[s]
                /\ (cache.db[s] = "valid" /\ attempt'.species \in DbKeys[s]) =>
                      attempt'.yielded[s] = DbRecord(s, attempt'.species)
                /\ \A sp \in AllSpecies :
                      cache'.sp[s][sp].st # "valid" => WouldFetch(s, cache', now', sp)]_vars

\* every endpoint of the first source failed on a database downloaded more
\* than the check interval ago: the record came from the stale file, and the
\* timestamp is the old one
C26_Witness ==
    /\ attempt.species = N2
    /\ AllFailed("burcat")
    /\ now = CHECK_INTERVAL + 1
    /\ cache.ts["burcat"] = ValidTs(0)
    /\ cache.db["burcat"] = "valid"
    /\ attempt.yielded["burcat"] = DbRecord("burcat", N2)

(* More claims about the resolver, checked under Spec *)
\* the step is a resolution: the clock stands and no file was damaged
ResolveStep ==
    /\ now' = now
    /\ NumCorrupt(cache') <= NumCorrupt(cache)

\* the source has the species for the resolution of the step: in its
\* per-species file, or in its database, the file of which is readable once
\* the resolution is over (it was, or it has just been downloaded)
Available(s, sp) ==
    \/ cache.sp[s][sp].st = "valid"
    \/ sp \in DbKeys[s] /\ cache'.db[s] = "valid"

\* C27: a record cached earlier under a lower-priority source does not shadow
\* a higher-priority one: a resolution returns the record of the first source,
\* in priority order, that has the species in its per-species file, in a
\* usable database file or by a successful download
C27_HigherPriorityWins ==
    [][ResolveStep =>
          \A i \in 1..Len(SOURCES) :
              (/\ Available(SOURCES[i], last'.species)
               /\ \A j \in 1..(i - 1) : ~Available(SOURCES[j], last'.species))
              => last'.result = Rec(last'.species, SOURCES[i], SOURCES[i])]_vars

\* the record of the first source was returned while the per-species file of
\* the third, written by an earlier resolution, holds the species
C27_Witness ==
    /\ last.species = N2
    /\ last.result = Rec(N2, "burcat", "burcat")
    /\ cache.sp["nasa"][N2] = ValidFile(DbRecord("nasa", N2))

(* Claims about two runs on one cache directory, checked under SpecConcurrent *)
\* the step is a resolution of the second run
ReadRunStep == writing'.reads = writing.reads + 1

\* the first run has a file open that it has not written in full
Partial == writing.todo # <<>> /\ writing.phase \in {"open", "prefix"}

\* the cache directory with the partially written file unreadable
Damaged(C) ==
    IF Partial THEN Emptied(C, Head(writing.todo), writing.species) ELSE C

\* the resolution of the step did not fail, and returned the record of the
\* first source that has the species, or the estimator's where none has
RightRecord ==
    LET sp == last'.species
        has == {i \in 1..Len(SOURCES) : Available(SOURCES[i], sp)}
    IN /\ last'.result.origin # "ValueError"
       /\ IF has = {} THEN last'.result = calculate_thermo_from_first_principles(sp)
          ELSE LET s == SOURCES[CHOOSE i \in has : \A j \in has : i <= j]
               IN last'.result = Rec(sp, s, s)

\* what the resolution of the step would have done with the partially
\* written file unreadable
AsCorrupt == Kept(get_thermo_data(Damaged(cache), now, last'.species, network).log)

\* C30 as stated: with two runs interleaved on one cache directory, neither
\* fails nor returns a wrong record, and a run that meets a partially written
\* per-species file, database file or timestamp handles it as corrupt, as a
\* miss or as stale
C30_PartialReadAsCorrupt ==
    [][ReadRunStep => (RightRecord /\ last' = AsCorrupt)]_vars

\* C30, amended: neither run fails nor returns a wrong record; a partially
\* written per-species or database file is handled as corrupt; a partially
\* written timestamp is handled as stale where it does not parse and as the
\* timestamp of that day where it does, and the record returned is the same
C30_PartialReadHarmless ==
    [][ReadRunStep =>
          /\ RightRecord
          /\ last'.result = AsCorrupt.result
          /\ last' # AsCorrupt =>
                /\ Partial
                /\ Head(writing.todo).file = "ts"
                /\ writing.phase = "prefix"
                /\ cache.ts[Head(writing.todo).source] = ValidTs(now)]_vars

\* the second run resolved N2 while the first had written the database file
\* of the first source and a prefix of its timestamp that parses: it took the
\* database file as fresh and did not go to the network
C30_Witness ==
    /\ Partial
    /\ Head(writing.todo) = [file |-> "ts", source |-> "burcat"]
    /\ writing.phase = "prefix"
    /\ cache.ts["burcat"] = ValidTs(now)
    /\ writing.reads = 1
    /\ last.species = N2
    /\ last.fetched = {}
    /\ last.result = Rec(N2, "burcat", "burcat")
    /\ network["burcat"][1] = "ok"
====
